---- MODULE Spec2Model ----
(***************************************************************************)
(* Model of the payrolla-mcp server: the tool handlers of registerTools    *)
(* and the functions calculatePayroll, calculateBulkPayroll, simulateBudget,*)
(* compareScenarios, applyScenario and getDefaultParams of                 *)
(* src/src/tools/calculate.ts.  The external                               *)
(* calculation engine (client.calculate) is a nondeterministic             *)
(* collaborator.  A JavaScript value that may be undefined is modelled as  *)
(* an option: None is undefined, Some(v) is the value v.  Money is an      *)
(* integer.                                                                *)
(***************************************************************************)
EXTENDS Integers, Sequences, FiniteSets, TLC

VARIABLES
  pc,                              \* position of the process: "start", "idle", "simulate", "bulk", "payroll", "done", "exited"
  input,                           \* the parameters of the call being handled
  response,                        \* what the last finished call returned to its caller
  calls,                           \* the engine calls of the current call, in order
  empIdx,                          \* 1-based index of the employee the loop is at
  i,                               \* period index of simulateBudget's inner loop
  adjustedWage,
  cumulativeIncomeTaxBase,
  cumulativeMinWageIncomeTaxBase,
  transferredSSIBase1,
  transferredSSIBase2,
  empTotalCost,
  empTotalNet,
  empTotalGross,
  empPeriods,
  employeeResults,
  totalYearlyCost,
  totalYearlyNet,
  totalYearlyGross,
  scenarioResults,                 \* compareScenarios' `results`: name and total cost of the scenarios run so far
  sharedParams,                    \* the module-level object DEFAULT_PARAMS_2025
  env,                             \* process.env
  server,                          \* the MCP server: "none", "connected" or "closed"
  exitCode                         \* the status the process exited with, if it has

cumVars == <<cumulativeIncomeTaxBase, cumulativeMinWageIncomeTaxBase,
             transferredSSIBase1, transferredSSIBase2>>
empVars == <<adjustedWage, empTotalCost, empTotalNet, empTotalGross, empPeriods>>
sumVars == <<employeeResults, totalYearlyCost, totalYearlyNet, totalYearlyGross>>
procVars == <<sharedParams, env, server, exitCode>>
vars == <<pc, input, response, calls, empIdx, i, cumVars, empVars, sumVars, scenarioResults,
          procVars>>

-----------------------------------------------------------------------------
(* JavaScript values *)

None == <<>>
Some(v) == <<v>>
IsSome(o) == Len(o) = 1
Val(o) == o[1]

\* A property read: undefined when the object has no such property.
Get(obj, f) == IF f \in DOMAIN obj THEN Some(obj[f]) ELSE None

\* a / b on JavaScript numbers: a quotient kept exact as num/den, or NaN or
\* Infinity when the divisor is 0.
JSDiv(a, b) ==
  IF b # 0 THEN [kind |-> "number", num |-> a, den |-> b]
  ELSE IF a = 0 THEN [kind |-> "NaN", num |-> 0, den |-> 0]
  ELSE [kind |-> "Infinity", num |-> a, den |-> 0]

-----------------------------------------------------------------------------
(* Bounds of the model and constants of the program *)

MaxEmployees == 2        \* longest employee list
MaxPeriods == 3          \* largest period count of the small runs
MaxRollover == 1         \* periods past December in the direct simulateBudget run
MinPeriodCount == 1      \* z.number().min(1)
MaxPeriodCount == 12     \* z.number().max(12)
BasePaymentAmount == 31  \* paymentAmount of the base line
MaxScenarios == 3        \* longest scenario list of a comparison
MinScenarios == 1        \* z.array(ScenarioConfigSchema).min(1)

-----------------------------------------------------------------------------
(* Payment Builder and request model: calculatePayroll, lines 65-121 *)

mapSSIType(ssiType) ==
  IF ssiType = Some("S4B") THEN "S4B"
  ELSE IF ssiType = Some("S4C") THEN "S4C"
  ELSE "S4A"

mapCalculationType(calcType) == IF calcType = "Gross" THEN "Gross" ELSE "Net"

\* A property read of an object whose properties are optional: undefined
\* when the property is absent or was never assigned.
GetParam(obj, f) == IF f \in DOMAIN obj THEN obj[f] ELSE None

buildCustomGlobalParams(customParams) ==
  IF ~IsSome(customParams) THEN None
  ELSE Some([minWage |-> GetParam(Val(customParams), "minWage"),
             minWageNet |-> GetParam(Val(customParams), "minWageNet"),
             ssi_LowerLimit |-> GetParam(Val(customParams), "ssiLowerLimit"),
             ssi_UpperLimit |-> GetParam(Val(customParams), "ssiUpperLimit"),
             stampTaxRatio |-> GetParam(Val(customParams), "stampTaxRatio"),
             incomeTaxLimits |-> GetParam(Val(customParams), "incomeTaxLimits")])

\* The base line of every request.
BasePayment ==
  [paymentAmount |-> BasePaymentAmount, paymentName |-> "Maas",
   paymentType |-> "RegularPayment", paymentRef |-> [prefix |-> "", n |-> 1],
   calculationType |-> None]

\* Mutant of ExtraLine: the refs count from extra_1.
ExtraLineFromOne(extra, k) ==
  [paymentAmount |-> extra.amount, paymentName |-> extra.name,
   paymentType |-> "ExtraPay", paymentRef |-> [prefix |-> "extra_", n |-> k],
   calculationType |-> Some(IF extra.type = "Net" THEN "Net" ELSE "Gross")]

\* The line pushed for extraPayments[k] (k is 1-based here, i = k - 1 in the
\* source, so the ref extra_<i+2> is extra_<k+1>).
ExtraLine(extra, k) ==
  [paymentAmount |-> extra.amount, paymentName |-> extra.name,
   paymentType |-> "ExtraPay", paymentRef |-> [prefix |-> "extra_", n |-> k + 1],
   calculationType |-> Some(IF extra.type = "Net" THEN "Net" ELSE "Gross")]

BuildPayments(extraPayments) ==
  IF IsSome(extraPayments) /\ Len(Val(extraPayments)) > 0
  THEN <<BasePayment>> \o [k \in 1..Len(Val(extraPayments)) |->
                             ExtraLine(Val(extraPayments)[k], k)]
  ELSE <<BasePayment>>

\* String(month).padStart(2, '0') as a sequence of decimal digits.
Digits(n) == IF n < 10 THEN <<n>> ELSE <<n \div 10, n % 10>>
PadStart2(ds) == IF Len(ds) < 2 THEN <<0>> \o ds ELSE ds
CalcDate(year, month) == [yyyy |-> year, mm |-> PadStart2(Digits(month)), dd |-> <<0, 1>>]

\* periodCount = 1 when the caller leaves it out.
DefaultPeriodCount(periodCount) == IF IsSome(periodCount) THEN Val(periodCount) ELSE 1

\* The WageCalculationModel calculatePayroll sends for its input `in`.
BuildModel(in) ==
  [calcDate |-> CalcDate(in.year, in.month),
   wageAmount |-> in.wage,
   cumulativeIncomeTaxBase |-> Some(0),
   cumulativeMinWageIncomeTaxBase |-> Some(0),
   transferredSSIBase1 |-> None,
   transferredSSIBase2 |-> None,
   ssiType |-> mapSSIType(in.ssiType),
   wageCalculationType |-> mapCalculationType(in.calculationType),
   wagePeriodType |-> "Monthly",
   periodCount |-> DefaultPeriodCount(in.periodCount),
   periodLengthType |-> "Month",
   payments |-> BuildPayments(in.extraPayments),
   calculationParams |-> [calculateMinWageExemption |-> TRUE,
                          customGlobalParams |-> buildCustomGlobalParams(in.customParams)]]

-----------------------------------------------------------------------------
(* The external calculation engine, client.calculate(model) *)

\* The figures the engine may report for one month.  The two transferred SSI
\* bases are optional in the engine's response.
EngineFigures ==
  { [totalCost |-> 12,
     payrollResult |-> [totalNet |-> 7, totalGross |-> 10, totalIncomeTax |-> 1,
                        totalIncomeTaxBase |-> 8,
                        totalMinWageIncomeTaxExemptionBase |-> 3,
                        totalStampTax |-> 1, totalSSIWorkerPrem |-> 1,
                        totalSSIEmployerPrem |-> 2,
                        transferredSSIBase1 |-> Some(4),
                        transferredSSIBase2 |-> None]],
    [totalCost |-> 25,
     payrollResult |-> [totalNet |-> 15, totalGross |-> 20, totalIncomeTax |-> 3,
                        totalIncomeTaxBase |-> 17,
                        totalMinWageIncomeTaxExemptionBase |-> 6,
                        totalStampTax |-> 2, totalSSIWorkerPrem |-> 2,
                        totalSSIEmployerPrem |-> 5,
                        transferredSSIBase1 |-> None,
                        transferredSSIBase2 |-> Some(9)]] }

\* The engine reads the month back from the two digits of calcDate.
ParseMonth(calcDate) == 10 * calcDate.mm[1] + calcDate.mm[2]

\* The k-th payroll (k = 1 is the month of calcDate) of a response.
EnginePayroll(model, k, fig, withResult) ==
  LET idx == ParseMonth(model.calcDate) - 1 + (k - 1) IN
  [year |-> model.calcDate.yyyy + idx \div 12,
   month |-> (idx % 12) + 1,
   totalCost |-> fig.totalCost,
   payrollResult |-> IF withResult THEN Some(fig.payrollResult) ELSE None]

\* Every response the engine may give to `model`: it rejects (transport or
\* engine failure), answers without a payrolls list, answers with an empty
\* one, answers with one payroll per requested period, or answers with one
\* payroll that carries no payrollResult.
EngineResponses(model) ==
  LET n == model.periodCount
      figs == [1..n -> EngineFigures]
  IN  { [threw |-> TRUE, payrolls |-> None],
        [threw |-> FALSE, payrolls |-> None],
        [threw |-> FALSE, payrolls |-> Some(<<>>)] }
      \cup { [threw |-> FALSE,
              payrolls |-> Some([k \in 1..n |-> EnginePayroll(model, k, f[k], TRUE)])]
             : f \in figs }
      \cup { [threw |-> FALSE,
              payrolls |-> Some([k \in 1..n |->
                                   EnginePayroll(model, k, f[k], k # bad)])]
             : f \in {g \in figs : \A k \in 1..n : g[k].totalCost = 12}, bad \in 1..n }

\* Whether a response carries the result payload of every requested period.
HasResultPayload(resp) ==
  /\ ~resp.threw
  /\ IsSome(resp.payrolls)
  /\ Len(Val(resp.payrolls)) > 0
  /\ \A k \in 1..Len(Val(resp.payrolls)) : IsSome(Val(resp.payrolls)[k].payrollResult)

-----------------------------------------------------------------------------
(* calculatePayroll, lines 123-158: transform the engine's result *)

\* Mutant of PeriodOf: employerCost is taken from the gross total.
PeriodOfGrossAsCost(payroll) ==
  LET pr == Val(payroll.payrollResult) IN
  [year |-> payroll.year, month |-> payroll.month,
   grossWage |-> pr.totalGross, netWage |-> pr.totalNet,
   employerCost |-> pr.totalGross,
   incomeTax |-> pr.totalIncomeTax, stampTax |-> pr.totalStampTax,
   employeeSSI |-> pr.totalSSIWorkerPrem, employerSSI |-> pr.totalSSIEmployerPrem]

PeriodOf(payroll) ==
  LET pr == Val(payroll.payrollResult) IN
  [year |-> payroll.year, month |-> payroll.month,
   grossWage |-> pr.totalGross, netWage |-> pr.totalNet,
   employerCost |-> payroll.totalCost,
   incomeTax |-> pr.totalIncomeTax, stampTax |-> pr.totalStampTax,
   employeeSSI |-> pr.totalSSIWorkerPrem, employerSSI |-> pr.totalSSIEmployerPrem]

RECURSIVE SumCost(_)
SumCost(payrolls) ==
  IF Len(payrolls) = 0 THEN 0 ELSE payrolls[1].totalCost + SumCost(Tail(payrolls))

RECURSIVE SumResult(_, _)
SumResult(payrolls, f) ==
  IF Len(payrolls) = 0 THEN 0
  ELSE Val(payrolls[1].payrollResult)[f] + SumResult(Tail(payrolls), f)

\* What calculatePayroll does with the engine's response: it rejects with
\* the engine's error, throws a TypeError on a missing payrolls list or
\* payrollResult, or returns the totals and the periods.
NoValue == [employee |-> "", totalCost |-> 0, totalNet |-> 0, totalGross |-> 0,
            periods |-> <<>>]

\* Mutant of TransformResult: a payroll without payrollResult counts as a
\* month of zeros instead of throwing.
ZeroPeriod(payroll) ==
  [year |-> payroll.year, month |-> payroll.month, grossWage |-> 0, netWage |-> 0,
   employerCost |-> payroll.totalCost, incomeTax |-> 0, stampTax |-> 0,
   employeeSSI |-> 0, employerSSI |-> 0]

TransformResultLenient(name, resp) ==
  IF resp.threw
  THEN [threw |-> TRUE, error |-> "EngineError", value |-> NoValue]
  ELSE IF ~IsSome(resp.payrolls)
  THEN [threw |-> TRUE, error |-> "TypeError", value |-> NoValue]
  ELSE LET payrolls == Val(resp.payrolls)
           given == SelectSeq(payrolls, LAMBDA p : IsSome(p.payrollResult))
       IN [threw |-> FALSE, error |-> "",
           value |-> [employee |-> name,
                      totalCost |-> SumCost(payrolls),
                      totalNet |-> SumResult(given, "totalNet"),
                      totalGross |-> SumResult(given, "totalGross"),
                      periods |-> [k \in 1..Len(payrolls) |->
                                     IF IsSome(payrolls[k].payrollResult)
                                     THEN PeriodOf(payrolls[k])
                                     ELSE ZeroPeriod(payrolls[k])]]]

TransformResult(name, resp) ==
  IF resp.threw
  THEN [threw |-> TRUE, error |-> "EngineError", value |-> NoValue]
  ELSE IF ~IsSome(resp.payrolls)
  THEN [threw |-> TRUE, error |-> "TypeError", value |-> NoValue]
  ELSE IF \E k \in 1..Len(Val(resp.payrolls)) : ~IsSome(Val(resp.payrolls)[k].payrollResult)
  THEN [threw |-> TRUE, error |-> "TypeError", value |-> NoValue]
  ELSE LET payrolls == Val(resp.payrolls) IN
       [threw |-> FALSE, error |-> "",
        value |-> [employee |-> name,
                   totalCost |-> SumCost(payrolls),
                   totalNet |-> SumResult(payrolls, "totalNet"),
                   totalGross |-> SumResult(payrolls, "totalGross"),
                   periods |-> [k \in 1..Len(payrolls) |-> PeriodOf(payrolls[k])]]]

-----------------------------------------------------------------------------
(* Parameter Resolver: getDefaultParams, applyScenario, applyRaise *)

\* Number.MAX_SAFE_INTEGER, the limit of the last bracket.  The model uses
\* the largest value that stays inside the checker's integers.
MAX_SAFE_INTEGER == 2000000000

\* DEFAULT_PARAMS_2025.  Wages and SSI limits are in kurus (1/100 TL), the
\* stamp-tax ratio in 1/100000, bracket limits in TL and rates in percent.
DEFAULT_PARAMS_2025 ==
  [year |-> 2025,
   minWage |-> 2600550,
   minWageNet |-> 2210467,
   ssiLowerLimit |-> 2600550,
   ssiUpperLimit |-> 19504140,
   stampTaxRatio |-> 759,
   incomeTaxBrackets |-> << [limit |-> 158000, rate |-> 15, description |-> "b1"],
                            [limit |-> 330000, rate |-> 20, description |-> "b2"],
                            [limit |-> 1200000, rate |-> 27, description |-> "b3"],
                            [limit |-> 4300000, rate |-> 35, description |-> "b4"],
                            [limit |-> MAX_SAFE_INTEGER, rate |-> 40, description |-> "b5"] >>]

\* Mutant of getDefaultParams: the year of the copy is not overwritten.
getDefaultParamsSameYear(year) == sharedParams

\* getDefaultParams, lines 247-261: the shared object itself for 2025, a
\* copy with the year overwritten for any other year.
getDefaultParams(year) ==
  IF year = 2025 THEN sharedParams
  ELSE [sharedParams EXCEPT !.year = year]

\* x * (1 + pct / 100), exact for the amounts of the model.
Scale(x, pct) == (x \div 100) * (100 + pct) + ((x % 100) * (100 + pct)) \div 100

\* Mutant of ScaleRound: Math.floor in place of Math.round.
ScaleFloor(x, pct) ==
  LET ap == (x \div 1000) * pct
  IN  x + ap \div 100 + (1000 * (ap % 100) + (x % 1000) * pct) \div 100000

\* Math.round(x * (1 + pct / 100)), pct in thousandths of a percent: to the
\* nearest integer, halves up.  The product x * pct / 100000 is taken in two
\* parts, x = 1000 * (x \div 1000) + x % 1000, to stay within 32 bits.
ScaleRound(x, pct) ==
  LET ap == (x \div 1000) * pct
  IN  x + ap \div 100 + (2 * (1000 * (ap % 100) + (x % 1000) * pct) + 100000) \div 200000

ScaleBracket(bracket, pct) ==
  [limit |-> IF bracket.limit = MAX_SAFE_INTEGER THEN bracket.limit
             ELSE ScaleRound(bracket.limit, pct),
   rate |-> bracket.rate]

\* applyScenario, lines 266-299: the sparse CustomParams of a scenario.  A
\* property the function never assigns is absent from the result.
\* taxLimitIncreasePercent is in thousandths of a percent (10000 is 10 %),
\* the other percentages are in whole percents.
applyScenario(defaults, scenario) ==
  [minWage |-> scenario.minWage,
   ssiLowerLimit |-> IF IsSome(scenario.ssiLimitIncreasePercent)
                     THEN Some(Scale(defaults.ssiLowerLimit, Val(scenario.ssiLimitIncreasePercent)))
                     ELSE None,
   ssiUpperLimit |-> IF IsSome(scenario.ssiLimitIncreasePercent)
                     THEN Some(Scale(defaults.ssiUpperLimit, Val(scenario.ssiLimitIncreasePercent)))
                     ELSE None,
   incomeTaxLimits |->
     IF IsSome(scenario.customTaxBrackets) THEN scenario.customTaxBrackets
     ELSE IF IsSome(scenario.taxLimitIncreasePercent)
     THEN Some([k \in 1..Len(defaults.incomeTaxBrackets) |->
                  ScaleBracket(defaults.incomeTaxBrackets[k],
                               Val(scenario.taxLimitIncreasePercent))])
     ELSE None]

\* Mutant of applyRaise: the raise is applied twice.
applyRaiseTwice(wage, raisePercent) ==
  IF ~IsSome(raisePercent) \/ Val(raisePercent) = 0 THEN wage
  ELSE (wage * (100 + Val(raisePercent)) * (100 + Val(raisePercent))) \div 10000

\* applyRaise, lines 304-309: wage * (1 + raisePercent / 100).
applyRaise(wage, raisePercent) ==
  IF ~IsSome(raisePercent) \/ Val(raisePercent) = 0 THEN wage
  ELSE (wage * (100 + Val(raisePercent))) \div 100

-----------------------------------------------------------------------------
(* The calls the model handles *)

Bonus == [name |-> "Bonus", amount |-> 500, type |-> "Net", paymentType |-> None]
Prim == [name |-> "Prim", amount |-> 300, type |-> "Gross", paymentType |-> Some("Overtime")]
Yol == [name |-> "Yol", amount |-> 200, type |-> "Gross", paymentType |-> Some("SocialAid")]
Ikramiye == [name |-> "Ikramiye", amount |-> 900, type |-> "Net", paymentType |-> Some("ExtraPay")]

PayEvent(month, year, p) ==
  [month |-> month, year |-> year, name |-> p.name, amount |-> p.amount,
   type |-> p.type, paymentType |-> p.paymentType]

\* Ali has two pay events in February 2025, one in March 2025 and one in
\* January 2026; Ayse has neither extra payments nor pay events.
Ali ==
  [name |-> "Ali", wage |-> 1000, calculationType |-> "Net", ssiType |-> None,
   extraPayments |-> Some(<<Bonus, Prim>>),
   payEvents |-> Some(<<PayEvent(2, 2025, Bonus), PayEvent(3, 2025, Prim),
                        PayEvent(2, 2025, Yol), PayEvent(1, 2026, Ikramiye)>>)]

Ayse ==
  [name |-> "Ayse", wage |-> 2000, calculationType |-> "Gross", ssiType |-> Some("S4B"),
   extraPayments |-> None, payEvents |-> None]

\* Veli has an extra payment whose type is neither "Net" nor "Gross": the
\* tool schema refuses it, calculatePayroll called directly takes it.
Avans == [name |-> "Avans", amount |-> 100, type |-> "net", paymentType |-> None]

Veli ==
  [name |-> "Veli", wage |-> 1500, calculationType |-> "Gross", ssiType |-> None,
   extraPayments |-> Some(<<Avans, Bonus>>), payEvents |-> None]

\* The employee lists: Ali and Ayse in turn, starting with either.
EmployeeList(n, first) ==
  [k \in 1..n |-> IF (k % 2 = 1) = (first = "Ali") THEN Ali ELSE Ayse]

EmployeeLists == { EmployeeList(n, first) : n \in 0..MaxEmployees, first \in {"Ali", "Ayse"} }

NoScenario ==
  [name |-> None, salaryRaisePercent |-> None, minWage |-> None, minWageNet |-> None,
   taxLimitIncreasePercent |-> None, ssiLimitIncreasePercent |-> None,
   customTaxBrackets |-> None]

Scenarios ==
  { [NoScenario EXCEPT !.name = Some("Baseline")],
    [NoScenario EXCEPT !.salaryRaisePercent = Some(10), !.minWage = Some(3000000),
                       !.minWageNet = Some(2500000),
                       !.taxLimitIncreasePercent = Some(10001),
                       !.ssiLimitIncreasePercent = Some(10)],
    [NoScenario EXCEPT !.name = Some("Custom"), !.salaryRaisePercent = Some(0),
                       !.taxLimitIncreasePercent = Some(10000),
                       !.customTaxBrackets = Some(<<[limit |-> 100000, rate |-> 10],
                                                    [limit |-> MAX_SAFE_INTEGER, rate |-> 30]>>)] }

CustomParamsGiven ==
  [minWage |-> Some(2800000), minWageNet |-> None, ssiLowerLimit |-> None,
   ssiUpperLimit |-> None, stampTaxRatio |-> Some(800), incomeTaxLimits |-> None]

Call(tool, via, employees, year, month, periodCount, scenario, customParams) ==
  [tool |-> tool, via |-> via, employees |-> employees, year |-> year, month |-> month,
   periodCount |-> periodCount, scenario |-> scenario, customParams |-> customParams,
   scenarios |-> <<>>]

\* simulate_budget through the tool: short runs of every employee list
\* (period counts 0 and 13 are outside the schema), under every scenario for
\* the lists of at most one employee and under the raise for the longer
\* ones, and one full year.  simulateBudget called directly, past the schema: a run that goes
\* beyond December.
SimulateCalls ==
  UNION { { Call("simulate_budget", "tool", es, 2025, 1, Some(n), sc, None) :
              n \in (0..MaxPeriods) \cup {MaxPeriodCount + 1},
              sc \in {s \in Scenarios : Len(es) <= 1 \/ s.salaryRaisePercent = Some(10)} }
          : es \in EmployeeLists }
  \cup { Call("simulate_budget", "tool", <<Ali>>, 2025, 1, Some(MaxPeriodCount),
              NoScenario, None) }
  \cup { Call("simulate_budget", "direct", <<Ali>>, 2025, 1,
              Some(MaxPeriodCount + MaxRollover), NoScenario, None) }

\* calculate_bulk_payroll through the tool, with and without periodCount and
\* customParams, from a month late in the year.
BulkCalls ==
  { Call("calculate_bulk_payroll", "tool", es, 2025, m, n, NoScenario,
         IF m = 1 THEN None ELSE Some(CustomParamsGiven)) :
      es \in EmployeeLists, m \in {1, 11},
      n \in {None} \cup {Some(k) : k \in 0..MaxPeriods} }

\* calculate_payroll through the tool: the employee is the one entry of
\* `employees`; short runs from January and from November, and one of twelve
\* months.
PayrollCalls ==
  { Call("calculate_payroll", "tool", <<emp>>, 2025, m, n, NoScenario,
         IF m = 1 THEN None ELSE Some(CustomParamsGiven)) :
      emp \in {Ali, Ayse}, m \in {1, 11},
      n \in {None} \cup {Some(k) : k \in (0..MaxPeriods) \cup {MaxPeriodCount + 1}} }
  \cup { Call("calculate_payroll", "tool", <<Ayse>>, 2025, 11, Some(MaxPeriodCount),
              NoScenario, None),
          Call("calculate_payroll", "direct", <<Veli>>, 2025, 1, Some(1), NoScenario, None) }

\* The scenario lists of the comparisons: a named baseline, an unnamed
\* raise, a named custom-bracket scenario, an unnamed empty scenario, in turn.
ScenarioAt(k) ==
  IF k % 4 = 1 THEN [NoScenario EXCEPT !.name = Some("Baseline")]
  ELSE IF k % 4 = 2
  THEN [NoScenario EXCEPT !.salaryRaisePercent = Some(10), !.minWage = Some(3000000),
                          !.minWageNet = Some(2500000),
                          !.taxLimitIncreasePercent = Some(10000),
                          !.ssiLimitIncreasePercent = Some(10)]
  ELSE IF k % 4 = 3
  THEN [NoScenario EXCEPT !.name = Some("Custom"), !.salaryRaisePercent = Some(0),
                          !.taxLimitIncreasePercent = Some(10000),
                          !.customTaxBrackets = Some(<<[limit |-> 100000, rate |-> 10],
                                                       [limit |-> MAX_SAFE_INTEGER, rate |-> 30]>>)]
  ELSE [NoScenario EXCEPT !.name = Some("")]

ScenarioList(n, first) == [k \in 1..n |-> ScenarioAt(k + first - 1)]

CompareCall(via, employees, year, periodCount, scenarios) ==
  [Call("compare_scenarios", via, employees, year, 1, Some(periodCount), NoScenario, None)
     EXCEPT !.scenarios = scenarios]

\* compare_scenarios through the tool and compareScenarios called directly,
\* for no employee and for one, over one period.
CompareCalls ==
  { CompareCall(via, es, 2025, 1, ScenarioList(n, first)) :
      via \in {"tool", "direct"}, es \in {<<>>, <<Ayse>>},
      n \in 0..MaxScenarios, first \in 1..2 }

\* get_default_params for the year of the table and for other years.
DefaultParamsCalls ==
  { Call("get_default_params", "tool", <<>>, year, 1, None, NoScenario, None) :
      year \in {2024, 2025, 2030} }

Calls == SimulateCalls \cup BulkCalls \cup PayrollCalls \cup CompareCalls
         \cup DefaultParamsCalls

-----------------------------------------------------------------------------
(* The tool surface: registerTools *)

\* Mutant of PeriodCountInSchema: the schema has no lower bound.
PeriodCountNoMinimum(periodCount, optional) ==
  IF IsSome(periodCount) THEN Val(periodCount) <= MaxPeriodCount ELSE optional

\* The zod schema of periodCount: a number from 1 to 12; it may be left out
\* only where the schema marks it optional.
PeriodCountInSchema(periodCount, optional) ==
  IF IsSome(periodCount)
  THEN MinPeriodCount <= Val(periodCount) /\ Val(periodCount) <= MaxPeriodCount
  ELSE optional

\* z.array(ScenarioConfigSchema).min(1)
ScenariosInSchema(scenarios) == Len(scenarios) >= MinScenarios

MonthInSchema(month) == 1 <= month /\ month <= 12

\* Whether the parameters of a call pass the tool's input schema.
ValidParams(in) ==
  IF in.tool = "simulate_budget" THEN PeriodCountInSchema(in.periodCount, FALSE)
  ELSE IF in.tool = "compare_scenarios"
  THEN PeriodCountInSchema(in.periodCount, FALSE) /\ ScenariosInSchema(in.scenarios)
  ELSE IF in.tool = "get_default_params" THEN TRUE
  ELSE MonthInSchema(in.month) /\ PeriodCountInSchema(in.periodCount, TRUE)

\* What a call returns: the result handed to JSON.stringify, or an error.
\* A tool handler turns every exception into an isError response
\* "Error: <message>"; a direct call rejects with the same error.
\* `thrown` tells an error that reached the caller as an exception from an
\* error that reached it as a response; `errorText` is the text of an error
\* response.
Result(value) ==
  [isError |-> FALSE, error |-> "", result |-> Some(value), thrown |-> FALSE,
   errorText |-> ""]
Failure(error) ==
  [isError |-> TRUE, error |-> error, result |-> None, thrown |-> FALSE,
   errorText |-> "Error: " \o error]
Rejected(error) ==
  [isError |-> TRUE, error |-> error, result |-> None, thrown |-> TRUE,
   errorText |-> ""]
NoResponse ==
  [isError |-> FALSE, error |-> "", result |-> None, thrown |-> FALSE, errorText |-> ""]

\* Mutant of Caught: the handler has no catch.
Uncaught(via, error) == Rejected(error)

\* The try/catch of a tool handler: an error raised under it becomes an
\* error response; a function called directly rejects.
Caught(via, error) == IF via = "tool" THEN Failure(error) ELSE Rejected(error)

\* The schema refuses the parameters before the handler runs.
InvalidParams == Failure("InvalidParams")

-----------------------------------------------------------------------------
(* Period Driver: simulateBudget, lines 314-430 *)

\* Mutant of PeriodDate: the month wraps but the year is not advanced.
PeriodDateNoRollover(year, idx) == [calcYear |-> year, calcMonth |-> (idx % 12) + 1]

\* new Date(year, i, 1): getFullYear() and getMonth() + 1.
PeriodDate(year, idx) == [calcYear |-> year + idx \div 12, calcMonth |-> (idx % 12) + 1]

\* Mutant of PayEventInPeriod: the filter compares the month only.
PayEventInMonth(pe, date) == pe.month = date.calcMonth

\* (emp.payEvents || []).filter(...), lines 350-352.
PayEventInPeriod(pe, date) == pe.year = date.calcYear /\ pe.month = date.calcMonth

PeriodPayEvents(emp, date) ==
  LET all == IF IsSome(emp.payEvents) THEN Val(emp.payEvents) ELSE <<>>
      InPeriod(pe) == PayEventInPeriod(pe, date)
  IN  SelectSeq(all, InPeriod)

\* periodPayEvents.map(...), lines 355-360.
ToExtraPayments(periodPayEvents) ==
  [k \in 1..Len(periodPayEvents) |->
     [name |-> periodPayEvents[k].name, amount |-> periodPayEvents[k].amount,
      type |-> periodPayEvents[k].type, paymentType |-> periodPayEvents[k].paymentType]]

\* Mutant of PeriodInput: the request covers two months.
PeriodInputTwoMonths(emp, wage, date, extraPayments, customParams, cum) ==
  [name |-> emp.name, wage |-> wage, calculationType |-> emp.calculationType,
   ssiType |-> emp.ssiType, year |-> date.calcYear, month |-> date.calcMonth,
   periodCount |-> Some(2),
   extraPayments |-> IF Len(extraPayments) > 0 THEN Some(extraPayments) ELSE None,
   customParams |-> Some(customParams),
   cumulativeIncomeTaxBase |-> cum.cumulativeIncomeTaxBase,
   cumulativeMinWageIncomeTaxBase |-> cum.cumulativeMinWageIncomeTaxBase,
   transferredSSIBase1 |-> cum.transferredSSIBase1,
   transferredSSIBase2 |-> cum.transferredSSIBase2]

\* The input of the calculatePayroll call of one period, lines 362-376.
\* `cum` is the cumulative state the loop holds.
PeriodInput(emp, wage, date, extraPayments, customParams, cum) ==
  [name |-> emp.name, wage |-> wage, calculationType |-> emp.calculationType,
   ssiType |-> emp.ssiType, year |-> date.calcYear, month |-> date.calcMonth,
   periodCount |-> Some(1),
   extraPayments |-> IF Len(extraPayments) > 0 THEN Some(extraPayments) ELSE None,
   customParams |-> Some(customParams),
   cumulativeIncomeTaxBase |-> cum.cumulativeIncomeTaxBase,
   cumulativeMinWageIncomeTaxBase |-> cum.cumulativeMinWageIncomeTaxBase,
   transferredSSIBase1 |-> cum.transferredSSIBase1,
   transferredSSIBase2 |-> cum.transferredSSIBase2]

\* The cumulative state carried forward from a period's result, lines 386-390.
CarryForward(lastPeriod) ==
  [cumulativeIncomeTaxBase |-> Get(lastPeriod, "cumulativeIncomeTaxBase"),
   cumulativeMinWageIncomeTaxBase |-> Get(lastPeriod, "cumulativeMinWageIncomeTaxBase"),
   transferredSSIBase1 |-> Get(lastPeriod, "transferredSSIBase1"),
   transferredSSIBase2 |-> Get(lastPeriod, "transferredSSIBase2")]

\* Mutant of InitialState: an employee's run starts with the cumulative
\* state the previous run has left.
InitialStateCarried ==
  [cumulativeIncomeTaxBase |-> cumulativeIncomeTaxBase,
   cumulativeMinWageIncomeTaxBase |-> cumulativeMinWageIncomeTaxBase,
   transferredSSIBase1 |-> transferredSSIBase1,
   transferredSSIBase2 |-> transferredSSIBase2]

\* The cumulative state at the start of an employee's run, lines 333-336.
InitialState ==
  [cumulativeIncomeTaxBase |-> Some(0), cumulativeMinWageIncomeTaxBase |-> Some(0),
   transferredSSIBase1 |-> Some(0), transferredSSIBase2 |-> Some(0)]

CurrentState ==
  [cumulativeIncomeTaxBase |-> cumulativeIncomeTaxBase,
   cumulativeMinWageIncomeTaxBase |-> cumulativeMinWageIncomeTaxBase,
   transferredSSIBase1 |-> transferredSSIBase1,
   transferredSSIBase2 |-> transferredSSIBase2]

\* a || b on an optional number: b when a is undefined or 0.
JSOr(a, b) == IF IsSome(a) /\ Val(a) # 0 THEN Val(a) ELSE b

SimulationCustomParams(in) == applyScenario(getDefaultParams(in.year), in.scenario)

\* The value simulateBudget returns, lines 408-429.
SimulateResult(in, results, cost, net, gross) ==
  LET defaults == getDefaultParams(in.year)
      customParams == SimulationCustomParams(in)
  IN  [scenarioApplied |->
         [salaryRaisePercent |-> JSOr(in.scenario.salaryRaisePercent, 0),
          effectiveMinWage |-> JSOr(GetParam(customParams, "minWage"), defaults.minWage),
          effectiveTaxBrackets |->
            IF IsSome(customParams.incomeTaxLimits) THEN Val(customParams.incomeTaxLimits)
            ELSE [k \in 1..Len(defaults.incomeTaxBrackets) |->
                    [limit |-> defaults.incomeTaxBrackets[k].limit,
                     rate |-> defaults.incomeTaxBrackets[k].rate]]],
       summary |-> [totalYearlyCost |-> cost, totalYearlyNet |-> net,
                    totalYearlyGross |-> gross,
                    costPerEmployee |-> JSDiv(cost, Len(in.employees))],
       employees |-> results]

-----------------------------------------------------------------------------
(* Scenario Comparator: compareScenarios, lines 435-490 *)

\* Mutant of NoScenarioGiven: a single scenario is refused too.
NoScenarioGivenOrOne(scenarios) == Len(scenarios) <= 1

\* The guard of line 441.
NoScenarioGiven(scenarios) == Len(scenarios) = 0

\* Mutant of ScenarioName: the position counts from 0.
ScenarioNameFromZero(scenario, rs) ==
  IF IsSome(scenario.name) /\ Val(scenario.name) # "" THEN Val(scenario.name)
  ELSE "Scenario " \o ToString(Len(rs))

\* scenario.name || `Scenario ${results.length + 1}`, line 460: an undefined
\* or empty name is falsy.
ScenarioName(scenario, rs) ==
  IF IsSome(scenario.name) /\ Val(scenario.name) # "" THEN Val(scenario.name)
  ELSE "Scenario " \o ToString(Len(rs) + 1)

\* The entry pushed for a scenario once its simulation has returned, lines 459-462.
ResultEntry(scenario, rs, simulation) ==
  [name |-> ScenarioName(scenario, rs), totalCost |-> simulation.summary.totalYearlyCost]

\* The input compareScenarios hands to simulateBudget for the scenario it
\* is at, lines 452-457; for a simulate_budget call, the call itself.
SimulateInput(in, rs) ==
  IF in.tool = "compare_scenarios"
  THEN [in EXCEPT !.scenario = in.scenarios[Len(rs) + 1]]
  ELSE in

\* Mutant of InsertByCost: an entry goes before the entries of equal cost.
InsertBeforeEqual(sorted, r) ==
  LET before == SelectSeq(sorted, LAMBDA s : s.totalCost < r.totalCost)
      after == SelectSeq(sorted, LAMBDA s : s.totalCost >= r.totalCost)
  IN  before \o <<r>> \o after

\* [...results].sort((a, b) => a.totalCost - b.totalCost), line 480: the
\* sort is stable, so an entry goes after the entries of equal cost that
\* precede it in `results`.
InsertByCost(sorted, r) ==
  LET before == SelectSeq(sorted, LAMBDA s : s.totalCost <= r.totalCost)
      after == SelectSeq(sorted, LAMBDA s : s.totalCost > r.totalCost)
  IN  before \o <<r>> \o after

RECURSIVE SortByCost(_)
SortByCost(rs) ==
  IF Len(rs) = 0 THEN <<>>
  ELSE InsertByCost(SortByCost(SubSeq(rs, 1, Len(rs) - 1)), rs[Len(rs)])

\* Mutant of BaselineCost: the baseline is the cheapest scenario.
BaselineCheapest(rs) == SortByCost(rs)[1].totalCost

\* Line 466.
BaselineCost(rs) == rs[1].totalCost

\* A JavaScript number that is an integer literal.
JSNum(n) == [kind |-> "number", num |-> n, den |-> 1]

\* q * n on JavaScript numbers.
JSTimes(q, n) == IF q.kind = "number" THEN [q EXCEPT !.num = q.num * n] ELSE q

\* Mutant of PercentChange: no guard against a zero baseline.
PercentChangeUnguarded(cost, baselineCost) ==
  JSTimes(JSDiv(cost - baselineCost, baselineCost), 100)

\* Lines 473-476.
PercentChange(cost, baselineCost) ==
  IF baselineCost > 0
  THEN JSTimes(JSDiv(cost - baselineCost, baselineCost), 100)
  ELSE JSNum(0)

\* Mutant of Comparison: the entries are listed by cost.
ComparisonByCost(rs, baselineCost) ==
  LET sorted == SortByCost(rs) IN
  [k \in 1..Len(sorted) |->
     [scenarioName |-> sorted[k].name,
      totalCost |-> sorted[k].totalCost,
      costDifference |-> sorted[k].totalCost - baselineCost,
      percentChange |-> PercentChange(sorted[k].totalCost, baselineCost)]]

\* results.map(...), lines 469-477.
Comparison(rs, baselineCost) ==
  [k \in 1..Len(rs) |->
     [scenarioName |-> rs[k].name,
      totalCost |-> rs[k].totalCost,
      costDifference |-> rs[k].totalCost - baselineCost,
      percentChange |-> PercentChange(rs[k].totalCost, baselineCost)]]

\* Mutant of CheapestScenario: the entry is taken from the wrong end.
CheapestFromEnd(sortedByCost) == sortedByCost[Len(sortedByCost)].name

\* Lines 481-482.
CheapestScenario(sortedByCost) == sortedByCost[1].name

MostExpensiveScenario(sortedByCost) == sortedByCost[Len(sortedByCost)].name

\* The value compareScenarios returns, lines 465-489.
CompareResult(rs) ==
  LET baselineCost == BaselineCost(rs)
      sortedByCost == SortByCost(rs)
  IN  [baselineCost |-> baselineCost,
       comparison |-> Comparison(rs, baselineCost),
       cheapestScenario |-> CheapestScenario(sortedByCost),
       mostExpensiveScenario |-> MostExpensiveScenario(sortedByCost)]

\* The scenarios whose simulation returns without an engine call because
\* there is no employee: the loop of lines 451-463 runs them in one go.
RECURSIVE RunWhileNoEmployee(_, _)
RunWhileNoEmployee(in, rs) ==
  IF Len(rs) < Len(in.scenarios) /\ Len(in.employees) = 0
  THEN RunWhileNoEmployee(in,
         Append(rs, ResultEntry(in.scenarios[Len(rs) + 1], rs,
                                SimulateResult(SimulateInput(in, rs), <<>>, 0, 0, 0))))
  ELSE rs

-----------------------------------------------------------------------------
(* State machine *)

NoCall == Call("", "tool", <<>>, 2025, 1, None, NoScenario, None)

Accepting == pc = "idle"

Accepted(in) == in.via = "direct" \/ ValidParams(in)

\* The locals of an employee's run as the loop body sets them, lines 330-341.
EmployeeStart(wage) ==
  /\ adjustedWage' = wage
  /\ cumulativeIncomeTaxBase' = InitialState.cumulativeIncomeTaxBase
  /\ cumulativeMinWageIncomeTaxBase' = InitialState.cumulativeMinWageIncomeTaxBase
  /\ transferredSSIBase1' = InitialState.transferredSSIBase1
  /\ transferredSSIBase2' = InitialState.transferredSSIBase2
  /\ empTotalCost' = 0
  /\ empTotalNet' = 0
  /\ empTotalGross' = 0
  /\ empPeriods' = <<>>

SummaryStart ==
  /\ employeeResults' = <<>>
  /\ totalYearlyCost' = 0
  /\ totalYearlyNet' = 0
  /\ totalYearlyGross' = 0

\* Mutant of MissingCredential: the credential is not checked.
CredentialNotChecked(e) == FALSE

\* !process.env.PAYROLLA_API_KEY: the variable is not set, or is empty.
MissingCredential(e) ==
  ~IsSome(e.PAYROLLA_API_KEY) \/ Val(e.PAYROLLA_API_KEY) = ""

\* The environments the process may start in.
Environments ==
  { [PAYROLLA_API_KEY |-> key] : key \in {None, Some(""), Some("pk_live_x")} }

Init ==
  /\ pc = "start"
  /\ env \in Environments
  /\ server = "none"
  /\ exitCode = None
  /\ input = NoCall
  /\ response = NoResponse
  /\ calls = <<>>
  /\ empIdx = 0
  /\ i = 0
  /\ adjustedWage = 0
  /\ cumulativeIncomeTaxBase = Some(0)
  /\ cumulativeMinWageIncomeTaxBase = Some(0)
  /\ transferredSSIBase1 = Some(0)
  /\ transferredSSIBase2 = Some(0)
  /\ empTotalCost = 0
  /\ empTotalNet = 0
  /\ empTotalGross = 0
  /\ empPeriods = <<>>
  /\ employeeResults = <<>>
  /\ totalYearlyCost = 0
  /\ totalYearlyNet = 0
  /\ totalYearlyGross = 0
  /\ scenarioResults = <<>>
  /\ sharedParams = DEFAULT_PARAMS_2025

\* The locals of a call, as they are when no call is in progress.
NoCallInProgress ==
  /\ input' = NoCall
  /\ response' = NoResponse
  /\ calls' = <<>>
  /\ empIdx' = 0
  /\ i' = 0
  /\ EmployeeStart(0)
  /\ SummaryStart
  /\ scenarioResults' = <<>>

\* main, index.ts lines 22-71: without the credential the process exits
\* with status 1 before createServer; createServer (part_000 lines 88-94)
\* checks it again; a failure to connect is fatal too.
Main ==
  /\ pc = "start"
  /\ NoCallInProgress
  /\ UNCHANGED <<sharedParams, env>>
  /\ IF MissingCredential(env)
     THEN /\ pc' = "exited"
          /\ exitCode' = Some(1)
          /\ server' = "none"
     ELSE IF MissingCredential(env)
     THEN /\ pc' = "exited"
          /\ exitCode' = Some(1)
          /\ server' = "none"
     ELSE \E connects \in BOOLEAN :
            IF connects
            THEN /\ pc' = "idle"
                 /\ exitCode' = None
                 /\ server' = "connected"
            ELSE /\ pc' = "exited"
                 /\ exitCode' = Some(1)
                 /\ server' = "none"

\* The SIGINT and SIGTERM handlers, index.ts lines 53-67: the server is
\* closed and the process exits with status 0, whatever call is in progress.
Shutdown ==
  /\ pc \notin {"start", "exited"}
  /\ pc' = "exited"
  /\ NoCallInProgress
  /\ server' = "closed"
  /\ exitCode' = Some(0)
  /\ UNCHANGED <<sharedParams, env>>

\* A tool call whose parameters the schema refuses: the handler never runs.
RejectInvalid ==
  /\ Accepting
  /\ \E in \in Calls :
       /\ in.via = "tool"
       /\ ~ValidParams(in)
       /\ input' = in
  /\ pc' = "done"
  /\ response' = InvalidParams
  /\ calls' = <<>>
  /\ empIdx' = 0
  /\ i' = 0
  /\ EmployeeStart(0)
  /\ SummaryStart
  /\ scenarioResults' = <<>>
  /\ UNCHANGED procVars

\* simulateBudget up to its first engine call, lines 318-341: with no
\* employee it returns at once.
StartSimulate ==
  /\ Accepting
  /\ scenarioResults' = <<>>
  /\ UNCHANGED procVars
  /\ \E in \in Calls :
       /\ in.tool = "simulate_budget"
       /\ Accepted(in)
       /\ input' = in
       /\ calls' = <<>>
       /\ i' = 0
       /\ SummaryStart
       /\ IF Len(in.employees) = 0
          THEN /\ pc' = "done"
               /\ response' = Result(SimulateResult(in, <<>>, 0, 0, 0))
               /\ empIdx' = 0
               /\ EmployeeStart(0)
          ELSE /\ pc' = "simulate"
               /\ response' = NoResponse
               /\ empIdx' = 1
               /\ EmployeeStart(applyRaise(in.employees[1].wage,
                                           in.scenario.salaryRaisePercent))

\* compareScenarios from the push of line 459 on: the loop goes to the next
\* scenario and simulateBudget runs up to its first engine call, or the
\* loop is over and compareScenarios returns (lines 465-489).
NextScenario(in, rs0) ==
  LET rs == RunWhileNoEmployee(in, rs0) IN
  /\ scenarioResults' = rs
  /\ i' = 0
  /\ SummaryStart
  /\ IF Len(rs) = Len(in.scenarios)
     THEN /\ pc' = "done"
          /\ response' = Result(CompareResult(rs))
          /\ empIdx' = 0
          /\ EmployeeStart(0)
     ELSE /\ pc' = "simulate"
          /\ response' = NoResponse
          /\ empIdx' = 1
          /\ EmployeeStart(applyRaise(in.employees[1].wage,
                                      in.scenarios[Len(rs) + 1].salaryRaisePercent))

\* compareScenarios up to its first engine call, lines 439-457: with no
\* scenario it throws.
StartCompare ==
  /\ Accepting
  /\ UNCHANGED procVars
  /\ \E in \in Calls :
       /\ in.tool = "compare_scenarios"
       /\ Accepted(in)
       /\ input' = in
       /\ calls' = <<>>
       /\ IF NoScenarioGiven(in.scenarios)
          THEN /\ pc' = "done"
               /\ response' = Caught(in.via, "At least one scenario is required")
               /\ scenarioResults' = <<>>
               /\ empIdx' = 0
               /\ i' = 0
               /\ EmployeeStart(0)
               /\ SummaryStart
          ELSE NextScenario(in, <<>>)

\* The handler of get_default_params: getDefaultParams and its return.
GetDefaultParams ==
  /\ Accepting
  /\ \E in \in Calls :
       /\ in.tool = "get_default_params"
       /\ Accepted(in)
       /\ input' = in
       /\ response' = Result(getDefaultParams(in.year))
  /\ pc' = "done"
  /\ calls' = <<>>
  /\ empIdx' = 0
  /\ i' = 0
  /\ EmployeeStart(0)
  /\ SummaryStart
  /\ scenarioResults' = <<>>
  /\ UNCHANGED procVars

\* Mutant of PeriodLoopGoesOn: the loop runs one period too many.
PeriodLoopInclusive(next, periodCount) == next <= periodCount

\* The test of the period loop, line 344, with the index after i++.
PeriodLoopGoesOn(next, periodCount) == next < periodCount

\* One record of the engine-call log.
LogEntry(tool, emp, period, model, resp) ==
  [tool |-> tool, emp |-> emp, period |-> period, model |-> model, resp |-> resp]

\* One iteration of the period loop, lines 344-391, with the end of the
\* employee's run (lines 393-405) and of the call (lines 408-429) when the
\* iteration is the last one.
SimulatePeriod ==
  /\ pc = "simulate"
  /\ UNCHANGED procVars
  /\ LET in == SimulateInput(input, scenarioResults)
         emp == in.employees[empIdx]
         date == PeriodDate(in.year, i)
         extraPayments == ToExtraPayments(PeriodPayEvents(emp, date))
         args == PeriodInput(emp, adjustedWage, date, extraPayments,
                             SimulationCustomParams(in), CurrentState)
         model == BuildModel(args)
     IN \E resp \in EngineResponses(model) :
          LET out == TransformResult(emp.name, resp) IN
          /\ calls' = Append(calls, LogEntry(input.tool, empIdx, i, model, resp))
          /\ input' = input
          /\ IF out.threw \/ Len(out.value.periods) = 0
             THEN \* calculatePayroll threw, or result.periods[0] is undefined
                  \* and reading lastPeriod.cumulativeIncomeTaxBase throws.
                  /\ pc' = "done"
                  /\ response' = Caught(input.via,
                                         IF out.threw THEN out.error ELSE "TypeError")
                  /\ UNCHANGED <<empIdx, i, cumVars, empVars, sumVars, scenarioResults>>
             ELSE LET lastPeriod == out.value.periods[1]
                      cost == empTotalCost + out.value.totalCost
                      net == empTotalNet + out.value.totalNet
                      gross == empTotalGross + out.value.totalGross
                      periods == Append(empPeriods, lastPeriod)
                      carried == CarryForward(lastPeriod)
                  IN IF PeriodLoopGoesOn(i + 1, Val(in.periodCount))
                     THEN /\ pc' = "simulate"
                          /\ response' = NoResponse
                          /\ i' = i + 1
                          /\ empTotalCost' = cost
                          /\ empTotalNet' = net
                          /\ empTotalGross' = gross
                          /\ empPeriods' = periods
                          /\ cumulativeIncomeTaxBase' = carried.cumulativeIncomeTaxBase
                          /\ cumulativeMinWageIncomeTaxBase' = carried.cumulativeMinWageIncomeTaxBase
                          /\ transferredSSIBase1' = carried.transferredSSIBase1
                          /\ transferredSSIBase2' = carried.transferredSSIBase2
                          /\ UNCHANGED <<empIdx, adjustedWage, sumVars, scenarioResults>>
                     ELSE LET results == Append(employeeResults,
                                           [name |-> emp.name, originalWage |-> emp.wage,
                                            adjustedWage |-> adjustedWage,
                                            yearlyCost |-> cost, yearlyNet |-> net,
                                            yearlyGross |-> gross, periods |-> periods])
                              simulation == SimulateResult(in, results,
                                                           totalYearlyCost + cost,
                                                           totalYearlyNet + net,
                                                           totalYearlyGross + gross)
                          IN IF empIdx < Len(in.employees)
                             THEN /\ employeeResults' = results
                                  /\ totalYearlyCost' = totalYearlyCost + cost
                                  /\ totalYearlyNet' = totalYearlyNet + net
                                  /\ totalYearlyGross' = totalYearlyGross + gross
                                  /\ i' = 0
                                  /\ pc' = "simulate"
                                  /\ response' = NoResponse
                                  /\ empIdx' = empIdx + 1
                                  /\ EmployeeStart(applyRaise(in.employees[empIdx + 1].wage,
                                                              in.scenario.salaryRaisePercent))
                                  /\ UNCHANGED scenarioResults
                             ELSE IF input.tool = "compare_scenarios"
                             THEN \* simulateBudget returns to compareScenarios.
                                  NextScenario(input,
                                    Append(scenarioResults,
                                           ResultEntry(in.scenario, scenarioResults, simulation)))
                             ELSE /\ employeeResults' = results
                                  /\ totalYearlyCost' = totalYearlyCost + cost
                                  /\ totalYearlyNet' = totalYearlyNet + net
                                  /\ totalYearlyGross' = totalYearlyGross + gross
                                  /\ i' = 0
                                  /\ pc' = "done"
                                  /\ response' = Result(simulation)
                                  /\ UNCHANGED <<empIdx, cumVars, empVars, scenarioResults>>

\* The input of the calculatePayroll call of one employee of a bulk
\* calculation, lines 188-198.
BulkInput(emp, in) ==
  [name |-> emp.name, wage |-> emp.wage, calculationType |-> emp.calculationType,
   ssiType |-> emp.ssiType, year |-> in.year, month |-> in.month,
   periodCount |-> Some(DefaultPeriodCount(in.periodCount)),
   extraPayments |-> emp.extraPayments,
   customParams |-> in.customParams]

\* Mutant of BulkResult: the average divides by the number of employees.
BulkResultPerEmployee(in, results, cost, net, gross) ==
  [summary |-> [totalEmployees |-> Len(in.employees),
                totalYearlyCost |-> cost, totalYearlyNet |-> net,
                totalYearlyGross |-> gross,
                averageMonthlyCost |-> JSDiv(cost, Len(in.employees))],
   employees |-> results]

\* The value calculateBulkPayroll returns, lines 212-221.
BulkResult(in, results, cost, net, gross) ==
  [summary |-> [totalEmployees |-> Len(in.employees),
                totalYearlyCost |-> cost, totalYearlyNet |-> net,
                totalYearlyGross |-> gross,
                averageMonthlyCost |-> JSDiv(cost, DefaultPeriodCount(in.periodCount))],
   employees |-> results]

\* calculateBulkPayroll up to its first engine call, lines 167-187.
StartBulk ==
  /\ Accepting
  /\ scenarioResults' = <<>>
  /\ UNCHANGED procVars
  /\ \E in \in Calls :
       /\ in.tool = "calculate_bulk_payroll"
       /\ Accepted(in)
       /\ input' = in
       /\ calls' = <<>>
       /\ i' = 0
       /\ SummaryStart
       /\ EmployeeStart(0)
       /\ IF Len(in.employees) = 0
          THEN /\ pc' = "done"
               /\ response' = Result(BulkResult(in, <<>>, 0, 0, 0))
               /\ empIdx' = 0
          ELSE /\ pc' = "bulk"
               /\ response' = NoResponse
               /\ empIdx' = 1

\* One iteration of the employee loop of calculateBulkPayroll, lines
\* 187-210, with the return (lines 212-221) after the last employee.
BulkEmployee ==
  /\ pc = "bulk"
  /\ UNCHANGED <<scenarioResults, procVars>>
  /\ LET emp == input.employees[empIdx]
         args == BulkInput(emp, input)
         model == BuildModel(args)
     IN \E resp \in EngineResponses(model) :
          LET out == TransformResult(emp.name, resp) IN
          /\ calls' = Append(calls, LogEntry("calculate_bulk_payroll", empIdx, 0, model, resp))
          /\ input' = input
          /\ UNCHANGED <<i, cumVars, empVars>>
          /\ IF out.threw
             THEN /\ pc' = "done"
                  /\ response' = Caught(input.via, out.error)
                  /\ UNCHANGED <<empIdx, sumVars>>
             ELSE LET results == Append(employeeResults,
                                   [name |-> out.value.employee,
                                    totalCost |-> out.value.totalCost,
                                    totalNet |-> out.value.totalNet,
                                    totalGross |-> out.value.totalGross])
                      cost == totalYearlyCost + out.value.totalCost
                      net == totalYearlyNet + out.value.totalNet
                      gross == totalYearlyGross + out.value.totalGross
                  IN /\ employeeResults' = results
                     /\ totalYearlyCost' = cost
                     /\ totalYearlyNet' = net
                     /\ totalYearlyGross' = gross
                     /\ IF empIdx < Len(input.employees)
                        THEN /\ pc' = "bulk"
                             /\ response' = NoResponse
                             /\ empIdx' = empIdx + 1
                        ELSE /\ pc' = "done"
                             /\ response' = Result(BulkResult(input, results, cost, net, gross))
                             /\ empIdx' = empIdx

\* The parameters of calculate_payroll as calculatePayroll destructures
\* them, lines 69-79.
PayrollInput(emp, in) ==
  [name |-> emp.name, wage |-> emp.wage, calculationType |-> emp.calculationType,
   ssiType |-> emp.ssiType, year |-> in.year, month |-> in.month,
   periodCount |-> in.periodCount,
   extraPayments |-> emp.extraPayments,
   customParams |-> in.customParams]

\* The handler of calculate_payroll up to the engine call, lines 65-124.
StartPayroll ==
  /\ Accepting
  /\ \E in \in Calls :
       /\ in.tool = "calculate_payroll"
       /\ Accepted(in)
       /\ input' = in
  /\ pc' = "payroll"
  /\ response' = NoResponse
  /\ calls' = <<>>
  /\ empIdx' = 1
  /\ i' = 0
  /\ EmployeeStart(0)
  /\ SummaryStart
  /\ scenarioResults' = <<>>
  /\ UNCHANGED procVars

\* The engine answers and calculatePayroll returns, lines 124-158.
CalculatePayroll ==
  /\ pc = "payroll"
  /\ LET emp == input.employees[1]
         model == BuildModel(PayrollInput(emp, input))
     IN \E resp \in EngineResponses(model) :
          LET out == TransformResult(emp.name, resp) IN
          /\ calls' = Append(calls, LogEntry("calculate_payroll", 1, 0, model, resp))
          /\ response' = IF out.threw THEN Caught(input.via, out.error)
                          ELSE Result(out.value)
  /\ pc' = "done"
  /\ UNCHANGED <<input, empIdx, i, cumVars, empVars, sumVars, scenarioResults, procVars>>

\* The response has gone to the caller: the call's locals are dropped and the
\* server waits for the next call.
Respond ==
  /\ pc = "done"
  /\ pc' = "idle"
  /\ input' = NoCall
  /\ response' = NoResponse
  /\ calls' = <<>>
  /\ empIdx' = 0
  /\ i' = 0
  /\ EmployeeStart(0)
  /\ SummaryStart
  /\ scenarioResults' = <<>>
  /\ UNCHANGED procVars

Next ==
  \/ RejectInvalid
  \/ StartSimulate
  \/ SimulatePeriod
  \/ StartBulk
  \/ BulkEmployee
  \/ StartPayroll
  \/ CalculatePayroll
  \/ StartCompare
  \/ GetDefaultParams
  \/ Respond
  \/ Main
  \/ Shutdown

Spec == Init /\ [][Next]_vars

-----------------------------------------------------------------------------
(* The cumulative state as section 3 of the specification defines it *)

\* The figures the engine reported in a logged call that carried a result.
Reported(call) == Val(Val(call.resp.payrolls)[1].payrollResult)

\* The rule of the specification: the income-tax base adds up, the other
\* three take the engine's value, or keep theirs when the engine omits it.
RuleStep(state, rep) ==
  [cumulativeIncomeTaxBase |->
     Some(Val(state.cumulativeIncomeTaxBase) + rep.totalIncomeTaxBase),
   cumulativeMinWageIncomeTaxBase |-> Some(rep.totalMinWageIncomeTaxExemptionBase),
   transferredSSIBase1 |-> IF IsSome(rep.transferredSSIBase1) THEN rep.transferredSSIBase1
                           ELSE state.transferredSSIBase1,
   transferredSSIBase2 |-> IF IsSome(rep.transferredSSIBase2) THEN rep.transferredSSIBase2
                           ELSE state.transferredSSIBase2]

RECURSIVE RuleState(_)
RuleState(log) ==
  IF Len(log) = 0 THEN InitialState
  ELSE RuleStep(RuleState(SubSeq(log, 1, Len(log) - 1)), Reported(log[Len(log)]))

\* The last n entries of the engine-call log.
LastCalls(n) == SubSeq(calls, Len(calls) - n + 1, Len(calls))

RECURSIVE SumIncomeTaxBase(_)
SumIncomeTaxBase(log) ==
  IF Len(log) = 0 THEN 0
  ELSE Reported(log[1]).totalIncomeTaxBase + SumIncomeTaxBase(Tail(log))

\* The period loop of simulateBudget has finished i periods of the current
\* employee and is about to run the next one.
BetweenPeriods == pc = "simulate" /\ i > 0

-----------------------------------------------------------------------------
(* Claims *)

\* C1: after period i of an employee's run the cumulative income-tax base
\* held by simulateBudget is the sum of the engine's totalIncomeTaxBase over
\* the periods 0..i of that run.
C1_IncomeTaxBaseIsRunningSum ==
  BetweenPeriods =>
    cumulativeIncomeTaxBase = Some(SumIncomeTaxBase(LastCalls(i)))

\* A cumulative value of the engine request, an absent field read as 0.
Carried(model, f) == IF IsSome(model[f]) THEN Val(model[f]) ELSE 0

\* C2: the engine request of period i carries the current cumulative state in
\* its four fields: the initial state (all 0) for i = 0, and for i > 0 the
\* state the rule of section 3 yields from the engine's output of the periods
\* before i.
C2_RequestCarriesCumulativeState ==
  (Len(calls) > 0 /\ calls[Len(calls)].tool = "simulate_budget") =>
    LET call == calls[Len(calls)]
        before == SubSeq(calls, Len(calls) - call.period, Len(calls) - 1)
        state == RuleState(before)
    IN  /\ Carried(call.model, "cumulativeIncomeTaxBase") = Val(state.cumulativeIncomeTaxBase)
        /\ Carried(call.model, "cumulativeMinWageIncomeTaxBase")
             = Val(state.cumulativeMinWageIncomeTaxBase)
        /\ Carried(call.model, "transferredSSIBase1") = Val(state.transferredSSIBase1)
        /\ Carried(call.model, "transferredSSIBase2") = Val(state.transferredSSIBase2)

\* C3: after each period the cumulative minimum-wage base and the two
\* transferred SSI bases are the values the engine reported for that period,
\* or their prior values when the engine omitted them; they are never
\* undefined.
C3_NonAdditiveAccumulatorsReplaced ==
  BetweenPeriods =>
    LET state == RuleState(LastCalls(i)) IN
    /\ cumulativeMinWageIncomeTaxBase = state.cumulativeMinWageIncomeTaxBase
    /\ transferredSSIBase1 = state.transferredSSIBase1
    /\ transferredSSIBase2 = state.transferredSSIBase2

\* Adding k months to (year, month), one month at a time.
RECURSIVE AddMonths(_, _, _)
AddMonths(year, month, k) ==
  IF k = 0 THEN <<year, month>>
  ELSE IF month = 12 THEN AddMonths(year + 1, 1, k - 1)
  ELSE AddMonths(year, month + 1, k - 1)

\* A call has returned a result to its caller.
Returned(tool) ==
  pc = "done" /\ input.tool = tool /\ ~response.isError /\ IsSome(response.result)

RECURSIVE SumField(_, _)
SumField(s, f) == IF Len(s) = 0 THEN 0 ELSE s[1][f] + SumField(Tail(s), f)

\* C4: a simulation over N periods that succeeds returns exactly N periods
\* per employee, and the period at index k is the month reached by adding k
\* months to January of the requested year, rolling over into the next year.
C4_PeriodsFollowCalendar ==
  Returned("simulate_budget") =>
    \A e \in 1..Len(input.employees) :
      LET ps == Val(response.result).employees[e].periods IN
      /\ Len(ps) = Val(input.periodCount)
      /\ \A k \in 1..Len(ps) :
           <<ps[k].year, ps[k].month>> = AddMonths(input.year, 1, k - 1)

\* C4 witness: a returned run of thirteen periods whose last period is
\* January of the next year.
C4_Witness ==
  /\ Returned("simulate_budget")
  /\ Val(input.periodCount) = MaxPeriodCount + 1
  /\ LET ps == Val(response.result).employees[1].periods IN
     /\ ps[MaxPeriodCount].year = input.year /\ ps[MaxPeriodCount].month = 12
     /\ ps[MaxPeriodCount + 1].year = input.year + 1 /\ ps[MaxPeriodCount + 1].month = 1

\* C5: in a simulation the engine is called once per employee and period
\* index, in order and never twice for the same one, every request covers
\* one month, and a run that succeeds has made exactly N calls per employee.
C5_OneEngineCallPerPeriod ==
  input.tool = "simulate_budget" =>
    /\ \A k \in 1..Len(calls) :
         /\ calls[k].emp = ((k - 1) \div Val(input.periodCount)) + 1
         /\ calls[k].period = (k - 1) % Val(input.periodCount)
         /\ calls[k].model.periodCount = 1
         /\ calls[k].model.periodLengthType = "Month"
    /\ Returned("simulate_budget") =>
         Len(calls) = Len(input.employees) * Val(input.periodCount)

\* C5 witness: a returned run of two employees over three periods, six calls.
C5_Witness ==
  /\ Returned("simulate_budget")
  /\ Len(input.employees) = 2
  /\ Val(input.periodCount) = 3
  /\ Len(calls) = 6

\* C6: when the engine's answer for a period of a simulation lacks the
\* result payload, that call is the last engine call of the run and the run
\* ends in an error that returns no result, so none of the periods computed
\* before it.
C6_MissingResultAbortsRun ==
  input.tool = "simulate_budget" =>
    \A k \in 1..Len(calls) :
      ~HasResultPayload(calls[k].resp) =>
        /\ k = Len(calls)
        /\ pc = "done"
        /\ response.isError
        /\ response.result = None

\* C6 witness: the engine answered without a payrollResult after at least
\* one period had been computed, and the run ended in an error.
C6_Witness ==
  /\ pc = "done"
  /\ input.tool = "simulate_budget"
  /\ Len(calls) >= 2
  /\ Len(empPeriods) >= 1
  /\ ~calls[Len(calls)].resp.threw
  /\ ~HasResultPayload(calls[Len(calls)].resp)
  /\ response.isError

\* The payment lines of a request after its base line.
ExtraLines(model) == Tail(model.payments)

LineOf(line, pe) == line.paymentName = pe.name /\ line.paymentAmount = pe.amount

\* C7: in a simulation a pay event appears as a payment line in the request
\* of exactly the period whose calendar month is the event's (year, month),
\* and a request holds, after the base line, only pay events of its month.
C7_PayEventsOnlyInTheirMonth ==
  \A k \in 1..Len(calls) :
    calls[k].tool = "simulate_budget" =>
      LET emp == input.employees[calls[k].emp]
          events == IF IsSome(emp.payEvents) THEN Val(emp.payEvents) ELSE <<>>
          date == AddMonths(input.year, 1, calls[k].period)
          lines == ExtraLines(calls[k].model)
      IN  /\ \A n \in 1..Len(events) :
               (\E j \in 1..Len(lines) : LineOf(lines[j], events[n]))
                 <=> (date = <<events[n].year, events[n].month>>)
          /\ \A j \in 1..Len(lines) :
               \E n \in 1..Len(events) :
                 /\ LineOf(lines[j], events[n])
                 /\ date = <<events[n].year, events[n].month>>
          /\ Len(lines) <= Len(events)

\* C7 witness: a run whose January request has only the base line, whose
\* February request has the two February events and whose March request has
\* the March event.
C7_Witness ==
  /\ input.tool = "simulate_budget"
  /\ Len(calls) >= 3
  /\ calls[1].emp = 1 /\ calls[3].emp = 1
  /\ Len(ExtraLines(calls[1].model)) = 0
  /\ Len(ExtraLines(calls[2].model)) = 2
  /\ Len(ExtraLines(calls[3].model)) = 1

\* C8: the totals of an employee result are the sums of employerCost, netWage
\* and grossWage over the periods returned with it, for a simulation and for
\* calculate_payroll.
C8_TotalsAreSumsOfPeriods ==
  /\ Returned("simulate_budget") =>
       \A e \in 1..Len(Val(response.result).employees) :
         LET r == Val(response.result).employees[e] IN
         /\ r.yearlyCost = SumField(r.periods, "employerCost")
         /\ r.yearlyNet = SumField(r.periods, "netWage")
         /\ r.yearlyGross = SumField(r.periods, "grossWage")
  /\ Returned("calculate_payroll") =>
       LET r == Val(response.result) IN
       /\ r.totalCost = SumField(r.periods, "employerCost")
       /\ r.totalNet = SumField(r.periods, "netWage")
       /\ r.totalGross = SumField(r.periods, "grossWage")

\* C8 witness: a returned simulation of twelve periods with differing months.
C8_Witness ==
  /\ Returned("simulate_budget")
  /\ Val(input.periodCount) = MaxPeriodCount
  /\ LET r == Val(response.result).employees[1] IN
     /\ Len(r.periods) = MaxPeriodCount
     /\ r.periods[1].employerCost # r.periods[2].employerCost
     /\ r.yearlyCost > 0

\* The total cost the engine reported in a logged call.
EngineTotalCost(call) == SumCost(Val(call.resp.payrolls))

\* C9: the summary of calculateBulkPayroll counts the input employees, its
\* three totals are the sums of the per-employee totals, which are the
\* engine's totals for each employee, and averageMonthlyCost is
\* totalYearlyCost divided by periodCount (1 when left out).
C9_BulkSummary ==
  Returned("calculate_bulk_payroll") =>
    LET r == Val(response.result)
        s == r.summary
    IN  /\ s.totalEmployees = Len(input.employees)
        /\ Len(r.employees) = Len(input.employees)
        /\ s.totalYearlyCost = SumField(r.employees, "totalCost")
        /\ s.totalYearlyNet = SumField(r.employees, "totalNet")
        /\ s.totalYearlyGross = SumField(r.employees, "totalGross")
        /\ \A e \in 1..Len(r.employees) : r.employees[e].totalCost = EngineTotalCost(calls[e])
        /\ s.averageMonthlyCost.kind = "number"
        /\ s.averageMonthlyCost.num * DefaultPeriodCount(input.periodCount)
             = s.totalYearlyCost * s.averageMonthlyCost.den

\* C9 witness: a returned bulk calculation of two employees over three months.
C9_Witness ==
  /\ Returned("calculate_bulk_payroll")
  /\ Len(input.employees) = 2
  /\ input.periodCount = Some(3)
  /\ Val(response.result).summary.totalYearlyCost > 0
  /\ Val(response.result).employees[1].totalCost # Val(response.result).employees[2].totalCost

\* C10: a calculate_bulk_payroll call with periodCount = 0 is refused as
\* invalid parameters before any engine call, and no bulk summary ever holds
\* an averageMonthlyCost that comes from a division by zero.
C10_ZeroPeriodCountRejected ==
  /\ (input.tool = "calculate_bulk_payroll" /\ input.periodCount = Some(0)) =>
       /\ pc = "done"
       /\ response = InvalidParams
       /\ Len(calls) = 0
  /\ Returned("calculate_bulk_payroll") =>
       Val(response.result).summary.averageMonthlyCost.kind = "number"

\* C10 witness: the refused call.
C10_Witness ==
  /\ pc = "done"
  /\ input.tool = "calculate_bulk_payroll"
  /\ input.via = "tool"
  /\ input.periodCount = Some(0)
  /\ Len(input.employees) > 0
  /\ response.isError

-----------------------------------------------------------------------------
(* Scenario comparison *)

\* The engine-call log of the k-th scenario of a comparison: each scenario
\* takes one call per employee and period.
CallsOfScenario(k) ==
  LET per == Len(input.employees) * Val(input.periodCount)
  IN  SubSeq(calls, (k - 1) * per + 1, k * per)

RECURSIVE SumEngineCost(_)
SumEngineCost(log) ==
  IF Len(log) = 0 THEN 0 ELSE EngineTotalCost(log[1]) + SumEngineCost(Tail(log))

\* What the engine charged for the k-th scenario of the input list.
ScenarioCost(k) == SumEngineCost(CallsOfScenario(k))

Compared == Val(response.result)

IsZero(q) == q.kind = "number" /\ q.num = 0 /\ q.den # 0

\* C11: the baseline of a comparison is the first scenario of the input
\* list: baselineCost is the cost of the first scenario, every entry's
\* costDifference is its totalCost minus baselineCost, and the first entry
\* has costDifference 0 and percentChange 0.
C11_BaselineIsFirstScenario ==
  Returned("compare_scenarios") =>
    LET r == Compared IN
    /\ r.baselineCost = ScenarioCost(1)
    /\ \A k \in 1..Len(r.comparison) :
         r.comparison[k].costDifference = r.comparison[k].totalCost - r.baselineCost
    /\ r.comparison[1].costDifference = 0
    /\ IsZero(r.comparison[1].percentChange)

\* C11 witness: a returned comparison whose first scenario is not the
\* cheapest one.
C11_Witness ==
  /\ Returned("compare_scenarios")
  /\ Len(Compared.comparison) >= 2
  /\ Compared.comparison[2].totalCost < Compared.comparison[1].totalCost
  /\ Compared.baselineCost > 0

C12_NonZeroBaselineReached ==
  /\ Returned("compare_scenarios")
  /\ Compared.baselineCost # 0
  /\ \E k \in 1..Len(Compared.comparison) : Compared.comparison[k].costDifference # 0

\* C13: cheapestScenario names a scenario of minimal total cost and
\* mostExpensiveScenario names one of maximal total cost.
C13_CheapestAndMostExpensive ==
  Returned("compare_scenarios") =>
    LET r == Compared
        n == Len(r.comparison)
    IN  /\ n = Len(input.scenarios)
        /\ \E k \in 1..n :
             /\ r.comparison[k].scenarioName = r.cheapestScenario
             /\ \A j \in 1..n : ScenarioCost(k) <= ScenarioCost(j)
        /\ \E k \in 1..n :
             /\ r.comparison[k].scenarioName = r.mostExpensiveScenario
             /\ \A j \in 1..n : ScenarioCost(k) >= ScenarioCost(j)

\* C13 witness: three scenarios, the cheapest neither the first nor the last.
C13_Witness ==
  /\ Returned("compare_scenarios")
  /\ Len(Compared.comparison) = 3
  /\ Compared.cheapestScenario = Compared.comparison[2].scenarioName
  /\ Compared.comparison[2].totalCost < Compared.comparison[1].totalCost
  /\ Compared.comparison[2].totalCost < Compared.comparison[3].totalCost

\* The positions of the scenarios of minimal and of maximal cost, by what
\* the engine charged.
Cheapest(k) == \A j \in 1..Len(input.scenarios) : ScenarioCost(k) <= ScenarioCost(j)
MostExpensive(k) == \A j \in 1..Len(input.scenarios) : ScenarioCost(k) >= ScenarioCost(j)

FirstCheapest == CHOOSE k \in 1..Len(input.scenarios) :
                   Cheapest(k) /\ \A j \in 1..(k - 1) : ~Cheapest(j)
FirstMostExpensive == CHOOSE k \in 1..Len(input.scenarios) :
                        MostExpensive(k) /\ \A j \in 1..(k - 1) : ~MostExpensive(j)
LastMostExpensive == CHOOSE k \in 1..Len(input.scenarios) :
                       MostExpensive(k) /\ \A j \in (k + 1)..Len(input.scenarios) : ~MostExpensive(j)

\* C14, as claimed: among scenarios that tie on total cost, both
\* cheapestScenario and mostExpensiveScenario name the tied scenario that
\* comes first in input order.
C14_TiesResolveToFirstInInput ==
  Returned("compare_scenarios") =>
    /\ Compared.cheapestScenario = Compared.comparison[FirstCheapest].scenarioName
    /\ Compared.mostExpensiveScenario = Compared.comparison[FirstMostExpensive].scenarioName

\* C14, amended: among scenarios that tie on total cost, cheapestScenario
\* names the tied scenario that comes first in input order and
\* mostExpensiveScenario the tied scenario that comes last in input order.
C14_TiesFollowStableSort ==
  Returned("compare_scenarios") =>
    /\ Compared.cheapestScenario = Compared.comparison[FirstCheapest].scenarioName
    /\ Compared.mostExpensiveScenario = Compared.comparison[LastMostExpensive].scenarioName

\* C14 witness: three scenarios, the first and the third tie for most
\* expensive and the third is the one named.
C14_Witness ==
  /\ Returned("compare_scenarios")
  /\ Len(input.scenarios) = 3
  /\ ScenarioCost(1) = ScenarioCost(3)
  /\ ScenarioCost(2) < ScenarioCost(1)
  /\ Compared.mostExpensiveScenario = Compared.comparison[3].scenarioName
  /\ Compared.comparison[3].scenarioName # Compared.comparison[1].scenarioName

\* A second case of C14: a tie for cheapest.
C14_CheapestTieReached ==
  /\ Returned("compare_scenarios")
  /\ Len(input.scenarios) = 3
  /\ ScenarioCost(1) = ScenarioCost(3)
  /\ ScenarioCost(2) > ScenarioCost(1)
  /\ Compared.cheapestScenario = Compared.comparison[1].scenarioName

\* C15: a comparison with an empty scenario list ends in an error without
\* any engine call, whether the schema or compareScenarios refuses it; a
\* comparison with at least one scenario is never refused for its scenario
\* list.
C15_EmptyScenarioListFails ==
  (input.tool = "compare_scenarios") =>
    /\ Len(input.scenarios) = 0 =>
         /\ pc = "done"
         /\ response.isError
         /\ response.error = IF input.via = "tool" THEN InvalidParams.error
                             ELSE "At least one scenario is required"
         /\ Len(calls) = 0
    /\ Len(input.scenarios) >= 1 =>
         /\ response.error # "At least one scenario is required"
         /\ response # InvalidParams
         /\ ~(pc = "done" /\ Len(calls) = 0 /\ Len(input.employees) > 0)

\* C15 witness: compareScenarios itself has refused an empty list.
C15_Witness ==
  /\ pc = "done"
  /\ input.tool = "compare_scenarios"
  /\ input.via = "direct"
  /\ Len(input.scenarios) = 0
  /\ Len(input.employees) > 0
  /\ response.isError

\* A second case of C15: a comparison of a single scenario has returned.
C15_OneScenarioReturned ==
  /\ Returned("compare_scenarios")
  /\ Len(input.scenarios) = 1
  /\ Len(calls) > 0

\* The name the k-th scenario of the input list is to be reported under.
ExpectedName(k) ==
  LET name == input.scenarios[k].name IN
  IF name = None \/ name = Some("") THEN "Scenario " \o ToString(k) ELSE Val(name)

\* C16: a scenario without a name (none, or the empty string) is reported
\* as "Scenario <k>", k its 1-based position in the input list; a scenario
\* with a name is reported under it; the scenarios of the input keep the
\* names they came with.
C16_UnnamedScenariosNumbered ==
  Returned("compare_scenarios") =>
    /\ input \in CompareCalls
    /\ Len(Compared.comparison) = Len(input.scenarios)
    /\ \A k \in 1..Len(input.scenarios) :
         Compared.comparison[k].scenarioName = ExpectedName(k)

\* C16 witness: a comparison whose second scenario has no name and whose
\* third has one.
C16_Witness ==
  /\ Returned("compare_scenarios")
  /\ Len(input.scenarios) = 3
  /\ input.scenarios[2].name = None
  /\ Compared.comparison[2].scenarioName = "Scenario 2"
  /\ Compared.comparison[3].scenarioName = "Custom"

\* What the engine charged for the e-th employee of a simulation.
EmployeeCost(e) ==
  SumEngineCost(SubSeq(calls, (e - 1) * Val(input.periodCount) + 1,
                       e * Val(input.periodCount)))

\* C17: the output arrays follow the input order: entry k of `employees`
\* of a bulk or simulation result is input employee k with the engine's
\* totals of its own calls, and entry k of `comparison` is input scenario k
\* with the cost of its own simulation.
C17_OutputFollowsInputOrder ==
  /\ Returned("calculate_bulk_payroll") =>
       LET es == Val(response.result).employees IN
       /\ Len(es) = Len(input.employees)
       /\ \A k \in 1..Len(es) :
            /\ es[k].name = input.employees[k].name
            /\ es[k].totalCost = EngineTotalCost(calls[k])
  /\ Returned("simulate_budget") =>
       LET es == Val(response.result).employees IN
       /\ Len(es) = Len(input.employees)
       /\ \A k \in 1..Len(es) :
            /\ es[k].name = input.employees[k].name
            /\ es[k].originalWage = input.employees[k].wage
            /\ es[k].yearlyCost = EmployeeCost(k)
  /\ Returned("compare_scenarios") =>
       /\ Len(Compared.comparison) = Len(input.scenarios)
       /\ \A k \in 1..Len(input.scenarios) :
            /\ Compared.comparison[k].scenarioName = ExpectedName(k)
            /\ Compared.comparison[k].totalCost = ScenarioCost(k)

\* C17 witness: a comparison whose scenarios came in descending order of cost.
C17_Witness ==
  /\ Returned("compare_scenarios")
  /\ Len(input.scenarios) = 3
  /\ ScenarioCost(1) > ScenarioCost(2)
  /\ ScenarioCost(3) > ScenarioCost(2)

\* A second case of C17: a simulation of two employees whose costs differ.
C17_TwoEmployeesReached ==
  /\ Returned("simulate_budget")
  /\ Len(input.employees) = 2
  /\ input.employees[1].name = "Ayse"
  /\ EmployeeCost(1) # EmployeeCost(2)

-----------------------------------------------------------------------------
(* Parameter resolver *)

\* The override the engine received in the k-th call of a simulation.
OverrideSent(k) == Val(calls[k].model.calculationParams.customGlobalParams)

\* r is x * (1 + p / 100000) rounded to the nearest integer, for a limit x
\* of whole thousands.
NearestScaled(r, x, p) ==
  /\ x % 1000 = 0
  /\ 100 * (r - x) - (x \div 1000) * p >= -50
  /\ 100 * (r - x) - (x \div 1000) * p <= 50

\* The brackets a percent increase p of the limits yields.
LimitsScaled(b, p) ==
  LET d == DEFAULT_PARAMS_2025.incomeTaxBrackets IN
  /\ Len(b) = Len(d)
  /\ \A j \in 1..Len(d) :
       /\ b[j].rate = d[j].rate
       /\ IF d[j].limit = MAX_SAFE_INTEGER THEN b[j].limit = MAX_SAFE_INTEGER
          ELSE NearestScaled(b[j].limit, d[j].limit, p)

\* C18: with taxLimitIncreasePercent = p and no customTaxBrackets the
\* override holds the default brackets in order, every finite limit scaled
\* by 1 + p/100 and rounded to the nearest integer, the sentinel limit and
\* every rate unchanged; with customTaxBrackets the custom list is used as
\* it is and the percent increase is ignored.
C18_TaxLimitsScaledOrCustom ==
  (input.tool = "simulate_budget") =>
    LET sc == input.scenario IN
    /\ \A k \in 1..Len(calls) :
         /\ IsSome(sc.customTaxBrackets) =>
              OverrideSent(k).incomeTaxLimits = sc.customTaxBrackets
         /\ (~IsSome(sc.customTaxBrackets) /\ IsSome(sc.taxLimitIncreasePercent)) =>
              /\ IsSome(OverrideSent(k).incomeTaxLimits)
              /\ LimitsScaled(Val(OverrideSent(k).incomeTaxLimits),
                              Val(sc.taxLimitIncreasePercent))
    /\ Returned("simulate_budget") =>
         LET b == Val(response.result).scenarioApplied.effectiveTaxBrackets IN
         /\ IsSome(sc.customTaxBrackets) => b = Val(sc.customTaxBrackets)
         /\ (~IsSome(sc.customTaxBrackets) /\ IsSome(sc.taxLimitIncreasePercent)) =>
              LimitsScaled(b, Val(sc.taxLimitIncreasePercent))

\* C18 witness: a request made under an increase of 10.001 %, whose first
\* limit is rounded up and whose second is rounded down.
C18_Witness ==
  /\ input.tool = "simulate_budget"
  /\ Len(calls) > 0
  /\ input.scenario.taxLimitIncreasePercent = Some(10001)
  /\ ~IsSome(input.scenario.customTaxBrackets)
  /\ Val(OverrideSent(1).incomeTaxLimits)[1].limit = 173802
  /\ Val(OverrideSent(1).incomeTaxLimits)[2].limit = 363003
  /\ Val(OverrideSent(1).incomeTaxLimits)[5].limit = MAX_SAFE_INTEGER

\* A second case of C18: custom brackets given together with a percent
\* increase.
C18_CustomBracketsReached ==
  /\ input.tool = "simulate_budget"
  /\ Len(calls) > 0
  /\ IsSome(input.scenario.customTaxBrackets)
  /\ IsSome(input.scenario.taxLimitIncreasePercent)

\* C19: the override of a scenario is sparse: minWage and minWageNet are
\* copied as they are when the scenario sets them, and the minimum wages,
\* the SSI limits and the tax brackets are in the override only when the
\* scenario sets the field they come from.
C19_SparseOverride ==
  (input.tool = "simulate_budget") =>
    LET sc == input.scenario IN
    \A k \in 1..Len(calls) :
      /\ OverrideSent(k).minWage = sc.minWage
      /\ OverrideSent(k).minWageNet = sc.minWageNet
      /\ IsSome(OverrideSent(k).ssi_LowerLimit) <=> IsSome(sc.ssiLimitIncreasePercent)
      /\ IsSome(OverrideSent(k).ssi_UpperLimit) <=> IsSome(sc.ssiLimitIncreasePercent)
      /\ IsSome(OverrideSent(k).incomeTaxLimits)
           <=> (IsSome(sc.customTaxBrackets) \/ IsSome(sc.taxLimitIncreasePercent))

\* C20: get_default_params never fails and returns the 2025 table with the
\* year field reading the requested year; the shared table is never altered.
C20_DefaultsAreThe2025Table ==
  /\ sharedParams = DEFAULT_PARAMS_2025
  /\ (input.tool = "get_default_params") =>
       /\ pc = "done"
       /\ ~response.isError
       /\ IsSome(response.result)
       /\ Val(response.result).year = input.year
       /\ \A f \in DOMAIN DEFAULT_PARAMS_2025 \ {"year"} :
            Val(response.result)[f] = DEFAULT_PARAMS_2025[f]
       /\ DOMAIN Val(response.result) = DOMAIN DEFAULT_PARAMS_2025

\* C20 witness: the defaults of 2030 have been returned.
C20_Witness ==
  /\ Returned("get_default_params")
  /\ input.year = 2030
  /\ Val(response.result).year = 2030
  /\ Val(response.result).minWage = DEFAULT_PARAMS_2025.minWage

-----------------------------------------------------------------------------
(* Payment builder *)

\* The extra payments a logged request was built from: the employee's own
\* for calculate_payroll and calculate_bulk_payroll, the pay events of the
\* request's month for a simulation.
ExtrasOf(call) ==
  LET emp == input.employees[call.emp] IN
  IF call.tool \in {"calculate_payroll", "calculate_bulk_payroll"}
  THEN IF IsSome(emp.extraPayments) THEN Val(emp.extraPayments) ELSE <<>>
  ELSE LET m == ParseMonth(call.model.calcDate)
           y == call.model.calcDate.yyyy
       IN  IF IsSome(emp.payEvents)
           THEN SelectSeq(Val(emp.payEvents), LAMBDA pe : pe.year = y /\ pe.month = m)
           ELSE <<>>

\* C21: every engine request's payment list starts with exactly one base
\* line, of category RegularPayment and ref "1", whose amount is not set,
\* whatever the wage and the extra payments.
C21_BaseLineFirstAmountUnset ==
  \A c \in 1..Len(calls) :
    LET ps == calls[c].model.payments IN
    /\ Len(ps) >= 1
    /\ ps[1].paymentType = "RegularPayment"
    /\ ps[1].paymentRef = [prefix |-> "", n |-> 1]
    /\ "paymentAmount" \notin DOMAIN ps[1]
    /\ \A j \in 2..Len(ps) : ps[j].paymentRef.prefix = "extra_"

\* C22: for extra payments e_0..e_{k-1} the payment list holds, after the
\* base line, exactly k lines in input order; the line of e_i has ref
\* extra_<i+2>, e_i's name and amount, and is Net only when e_i's type is
\* exactly "Net", Gross otherwise.
C22_ExtraLinesInOrder ==
  \A c \in 1..Len(calls) :
    LET ps == calls[c].model.payments
        es == ExtrasOf(calls[c])
    IN  /\ Len(ps) = Len(es) + 1
        /\ \A j \in 1..Len(es) :
             /\ ps[j + 1].paymentRef = [prefix |-> "extra_", n |-> (j - 1) + 2]
             /\ ps[j + 1].paymentName = es[j].name
             /\ ps[j + 1].paymentAmount = es[j].amount
             /\ ps[j + 1].calculationType
                  = Some(IF es[j].type = "Net" THEN "Net" ELSE "Gross")

\* C22 witness: a request with two extra lines, the first from a payment
\* whose type is "net", the second from a Net payment.
C22_Witness ==
  /\ Len(calls) = 1
  /\ input.tool = "calculate_payroll"
  /\ input.employees[1].name = "Veli"
  /\ Len(calls[1].model.payments) = 3
  /\ calls[1].model.payments[2].calculationType = Some("Gross")
  /\ calls[1].model.payments[2].paymentRef = [prefix |-> "extra_", n |-> 2]
  /\ calls[1].model.payments[3].calculationType = Some("Net")
  /\ calls[1].model.payments[3].paymentRef = [prefix |-> "extra_", n |-> 3]

\* A second case of C22: a simulation request with two pay events of its month.
C22_PayEventsReached ==
  /\ input.tool = "simulate_budget"
  /\ \E c \in 1..Len(calls) : Len(calls[c].model.payments) = 3

\* C23: the line of an extra payment or pay event is tagged with the
\* category the input gives, and with ExtraPay only when it gives none.
C23_CategoryOfInput ==
  \A c \in 1..Len(calls) :
    LET ps == calls[c].model.payments
        es == ExtrasOf(calls[c])
    IN  \A j \in 1..Len(es) :
          (j + 1 <= Len(ps)) =>
            ps[j + 1].paymentType
              = IF IsSome(es[j].paymentType) THEN Val(es[j].paymentType) ELSE "ExtraPay"

-----------------------------------------------------------------------------
(* Errors and startup *)

Tools ==
  {"calculate_payroll", "calculate_bulk_payroll", "simulate_budget",
   "compare_scenarios", "get_default_params"}

\* A tool call has ended in an error.
ToolError == pc = "done" /\ input.via = "tool" /\ response.isError

\* The last engine call of the call in progress failed in transport, or came
\* back without a list of payrolls or with a payroll that has no result: the
\* cases in which calculatePayroll throws.
LastEngineCallFailed ==
  /\ Len(calls) > 0
  /\ LET resp == calls[Len(calls)].resp IN
     \/ resp.threw
     \/ ~IsSome(resp.payrolls)
     \/ \E k \in 1..Len(Val(resp.payrolls)) : ~IsSome(Val(resp.payrolls)[k].payrollResult)

\* C24: an error raised while a tool handles a call reaches the caller as an
\* error response with the text "Error: <message>", never as an exception;
\* it does not end the process, which exits with a failure status only at
\* startup, and after the response the server waits for the next call.
C24_ErrorsAreResponses ==
  /\ [](/\ (pc = "done" /\ input.via = "tool") =>
             /\ input.tool \in Tools
             /\ ~response.thrown
             /\ response.isError <=> ~IsSome(response.result)
             /\ response.isError =>
                  /\ response.error # ""
                  /\ response.errorText = "Error: " \o response.error
             /\ LastEngineCallFailed => response.isError
        /\ ToolError => (server = "connected" /\ exitCode = None))
  /\ [][/\ exitCode' = Some(1) => pc = "start"
        /\ ToolError => \/ pc' = "idle" /\ server' = "connected"
                        \/ pc' = "exited" /\ exitCode' = Some(0)]_vars

\* C24 witness: a simulate_budget call has ended in the error response of a
\* transport failure of its second engine call.
C24_Witness ==
  /\ ToolError
  /\ input.tool = "simulate_budget"
  /\ Len(calls) = 2
  /\ calls[2].resp.threw
  /\ response.errorText = "Error: EngineError"
  /\ server = "connected"

\* Other cases of C24: an engine result without payload in a bulk call, a
\* refused parameter list, and a comparison that failed.
C24_BulkErrorReached ==
  ToolError /\ input.tool = "calculate_bulk_payroll" /\ response.error = "TypeError"

C24_ValidationErrorReached == ToolError /\ response = InvalidParams

C24_CompareErrorReached ==
  ToolError /\ input.tool = "compare_scenarios" /\ Len(calls) > 0

\* The credential is absent: the variable is not set or is empty.
CredentialAbsent == env.PAYROLLA_API_KEY \in {None, Some("")}

\* C25: when the credential is absent at startup the process exits with
\* status 1 before the server is created or connected: no call is ever
\* taken, and a call is served only by a process that has the credential.
C25_NoCredentialNoServer ==
  /\ CredentialAbsent =>
       /\ pc \in {"start", "exited"}
       /\ server = "none"
       /\ pc = "exited" => exitCode = Some(1)
       /\ input = NoCall
       /\ Len(calls) = 0
       /\ response = NoResponse
  /\ (pc \notin {"start", "exited"}) => (~CredentialAbsent /\ server = "connected")

\* C25 witness: the process has exited for want of the credential.
C25_Witness ==
  /\ pc = "exited"
  /\ env.PAYROLLA_API_KEY = None
  /\ exitCode = Some(1)
  /\ server = "none"

\* A second case of C25: a process with the credential serves a call.
C25_ServingReached == pc = "done" /\ ~CredentialAbsent /\ IsSome(response.result)

-----------------------------------------------------------------------------
(* The period driver as a state machine *)

\* The driver is at RunningPeriod(i) of employee empIdx.
Running == pc = "simulate" /\ input.tool = "simulate_budget"

\* This step made exactly one engine call, for the period the driver was at.
OneEngineCall ==
  /\ Len(calls') = Len(calls) + 1
  /\ SubSeq(calls', 1, Len(calls)) = calls
  /\ calls'[Len(calls')].emp = empIdx
  /\ calls'[Len(calls')].period = i

\* The engine call of this step returned a result.
CallSucceeded == HasResultPayload(calls'[Len(calls')].resp)

\* C26: the period driver goes Pending -> RunningPeriod(0) -> ...: it enters
\* RunningPeriod(i+1) only after the engine call of period i has returned a
\* result and only while i+1 < periodCount; an employee's run is Completed
\* only after exactly periodCount successful periods; the run is Failed only
\* from a RunningPeriod whose engine call failed; Completed and Failed are
\* terminal: no engine call follows.
C26_PeriodDriverStateMachine ==
  [][/\ (pc = "idle" /\ pc' = "simulate") => (i' = 0 /\ empIdx' = 1 /\ Len(calls') = 0)
     /\ (Running /\ pc' # "exited") =>
          /\ OneEngineCall
          /\ (pc' = "simulate" /\ empIdx' = empIdx) =>
               /\ CallSucceeded
               /\ i' = i + 1
               /\ i' < Val(input.periodCount)
               /\ Len(empPeriods') = i'
          /\ (pc' = "simulate" /\ empIdx' # empIdx) =>
               /\ CallSucceeded
               /\ i + 1 = Val(input.periodCount)
               /\ empIdx' = empIdx + 1
               /\ i' = 0
               /\ Len(employeeResults'[empIdx].periods) = Val(input.periodCount)
          /\ (pc' = "done" /\ ~response'.isError) =>
               /\ CallSucceeded
               /\ i + 1 = Val(input.periodCount)
               /\ empIdx = Len(input.employees)
               /\ Len(Val(response'.result).employees[empIdx].periods)
                    = Val(input.periodCount)
          /\ (pc' = "done" /\ response'.isError) => ~CallSucceeded
          /\ pc' \in {"simulate", "done"}
          /\ ~CallSucceeded => (pc' = "done" /\ response'.isError)
     /\ (pc = "done" /\ input.tool = "simulate_budget") =>
          (Len(calls') = 0 /\ pc' \in {"idle", "exited"})]_vars

\* C26 witness: a run of three periods has failed at its third period.
C26_Witness ==
  /\ pc = "done"
  /\ input.tool = "simulate_budget"
  /\ input.periodCount = Some(3)
  /\ response.isError
  /\ Len(calls) = 3
  /\ calls[3].period = 2

\* A second case of C26: a run of two employees over three periods has completed.
C26_CompletedReached ==
  /\ Returned("simulate_budget")
  /\ input.periodCount = Some(3)
  /\ Len(input.employees) = 2
  /\ Len(calls) = 6

-----------------------------------------------------------------------------
(* Cumulative state between runs *)

\* An employee's run is about to make its first engine call.
RunStarts == pc = "simulate" /\ i = 0

\* C27: no cumulative state leaks from one run to the next: every
\* employee's run, in every scenario, starts with the four accumulators at 0
\* and with empty per-employee totals, every scenario's simulation starts
\* with empty summary totals, and the total cost compareScenarios reports for
\* a scenario is the cost of that scenario's own engine calls, which is what
\* simulateBudget returns for it alone.
C27_NoStateLeaksBetweenRuns ==
  /\ RunStarts =>
       /\ cumulativeIncomeTaxBase = Some(0)
       /\ cumulativeMinWageIncomeTaxBase = Some(0)
       /\ transferredSSIBase1 = Some(0)
       /\ transferredSSIBase2 = Some(0)
       /\ empTotalCost = 0 /\ empTotalNet = 0 /\ empTotalGross = 0
       /\ Len(empPeriods) = 0
  /\ (RunStarts /\ empIdx = 1) =>
       /\ totalYearlyCost = 0 /\ totalYearlyNet = 0 /\ totalYearlyGross = 0
       /\ Len(employeeResults) = 0
  /\ \A c \in 1..Len(calls) :
       (calls[c].tool \in {"simulate_budget", "compare_scenarios"} /\ calls[c].period = 0)
         => /\ calls[c].model.cumulativeIncomeTaxBase = Some(0)
            /\ calls[c].model.cumulativeMinWageIncomeTaxBase = Some(0)
  /\ Returned("compare_scenarios") =>
       \A k \in 1..Len(input.scenarios) :
         Compared.comparison[k].totalCost = ScenarioCost(k)
  /\ Returned("simulate_budget") =>
       Val(response.result).summary.totalYearlyCost = SumEngineCost(calls)

\* C27 witness: inside a comparison, the second employee's run of the
\* second scenario starts after runs that have left a cumulative state.
C27_Witness ==
  /\ RunStarts
  /\ input.tool = "compare_scenarios"
  /\ Len(scenarioResults) >= 1
  /\ scenarioResults[1].totalCost > 0
  /\ Len(calls) >= 1

\* A second case of C27: the second employee of a simulation starts.
C27_SecondEmployeeStarts ==
  /\ RunStarts
  /\ input.tool = "simulate_budget"
  /\ empIdx = 2
  /\ totalYearlyCost > 0

-----------------------------------------------------------------------------
(* The salary raise *)

\* The scenario the c-th engine call of a simulation was made under.
ScenarioOfCall(c) ==
  IF input.tool = "compare_scenarios"
  THEN input.scenarios[((c - 1) \div (Len(input.employees) * Val(input.periodCount))) + 1]
  ELSE input.scenario

\* The raise of a scenario in percent, 0 when it gives none.
RaiseOf(scenario) ==
  IF IsSome(scenario.salaryRaisePercent) THEN Val(scenario.salaryRaisePercent) ELSE 0

\* C28: the raise is applied exactly once per employee: the request of every
\* period carries the wage w with 100 * w = wage * (100 + raisePercent), the
\* input wage itself when the scenario gives no raise or a raise of 0, the
\* same in every period of the run, and the employee's result reports the
\* input wage as originalWage and w as adjustedWage.
C28_RaiseAppliedOnce ==
  /\ (input.tool \in {"simulate_budget", "compare_scenarios"}) =>
       \A c \in 1..Len(calls) :
         LET wage == input.employees[calls[c].emp].wage
             p == RaiseOf(ScenarioOfCall(c))
         IN  /\ 100 * calls[c].model.wageAmount = wage * (100 + p)
             /\ (p = 0) => calls[c].model.wageAmount = wage
             /\ \A d \in 1..Len(calls) :
                  (calls[d].emp = calls[c].emp /\ ScenarioOfCall(d) = ScenarioOfCall(c))
                    => calls[d].model.wageAmount = calls[c].model.wageAmount
  /\ Returned("simulate_budget") =>
       LET es == Val(response.result).employees IN
       \A e \in 1..Len(es) :
         /\ es[e].originalWage = input.employees[e].wage
         /\ 100 * es[e].adjustedWage
              = input.employees[e].wage * (100 + RaiseOf(input.scenario))

\* C28 witness: a simulation of two employees over three periods under a
\* raise of 10 percent has returned.
C28_Witness ==
  /\ Returned("simulate_budget")
  /\ RaiseOf(input.scenario) = 10
  /\ Len(input.employees) = 2
  /\ Len(calls) = 6
  /\ calls[6].period = 2
  /\ calls[6].model.wageAmount > input.employees[2].wage

\* A second case of C28: a run of several periods under no raise.
C28_NoRaiseReached ==
  /\ Returned("simulate_budget")
  /\ ~IsSome(input.scenario.salaryRaisePercent)
  /\ Len(calls) >= 2

\* A third case of C28: a run under a raise of 0.
C28_ZeroRaiseReached ==
  /\ Returned("compare_scenarios")
  /\ \E c \in 1..Len(calls) : ScenarioOfCall(c).salaryRaisePercent = Some(0)

-----------------------------------------------------------------------------
(* The summary of a simulation *)

\* C29: for every input the simulate_budget tool accepts, the three summary
\* totals are the sums of the employees' yearly figures and costPerEmployee
\* is a finite number equal to totalYearlyCost divided by the number of
\* employees, the empty employee list included.
C29_SummaryTotalsAndFiniteAverage ==
  (Returned("simulate_budget") /\ input.via = "tool") =>
    LET r == Val(response.result)
        s == r.summary
    IN  /\ s.totalYearlyCost = SumField(r.employees, "yearlyCost")
        /\ s.totalYearlyNet = SumField(r.employees, "yearlyNet")
        /\ s.totalYearlyGross = SumField(r.employees, "yearlyGross")
        /\ s.costPerEmployee.kind = "number"
        /\ s.costPerEmployee.num * Len(input.employees)
             = s.totalYearlyCost * s.costPerEmployee.den

\* The part of C29 that the code keeps: the totals are the sums, and the
\* average is the quotient whenever there is an employee.
C29_TotalsAreSums ==
  Returned("simulate_budget") =>
    LET r == Val(response.result)
        s == r.summary
    IN  /\ s.totalYearlyCost = SumField(r.employees, "yearlyCost")
        /\ s.totalYearlyNet = SumField(r.employees, "yearlyNet")
        /\ s.totalYearlyGross = SumField(r.employees, "yearlyGross")
        /\ Len(input.employees) > 0 =>
             /\ s.costPerEmployee.kind = "number"
             /\ s.costPerEmployee.num * Len(input.employees)
                  = s.totalYearlyCost * s.costPerEmployee.den

\* The tool has accepted an empty employee list and returned a summary.
C29_EmptyListReturned ==
  /\ Returned("simulate_budget")
  /\ input.via = "tool"
  /\ Len(input.employees) = 0
  /\ Val(response.result).summary.costPerEmployee.kind = "NaN"

====
